---- MODULE Spec2Model ----
(***************************************************************************)
(* Compact Transaction Encoding (CTE): the encoder (encoder.c), the        *)
(* decoder (decoder.c) and the size tables (cte.c) as one state machine.   *)
(*                                                                         *)
(* A C buffer is a function from 0-based byte offsets to bytes 0..255; an  *)
(* offset that was never stored is outside the function's domain (malloc   *)
(* gives no initial contents).  A 64-bit integer is a function from bit    *)
(* numbers 0..63 to {0,1} (two's complement for int64_t), because the      *)
(* LEB128 codecs work on all 64 bits.  lea_abort ends the process: the     *)
(* variable aborted holds its message and no operation runs afterwards.    *)
(***************************************************************************)
EXTENDS Integers, Sequences, FiniteSets, TLC

VARIABLES
    enc,            \* cte_encoder_t {buffer, capacity, position}, or NoHandle
    fields,         \* the write calls that returned since init or reset, in order
    nwrites,        \* how many write calls the encoder has accepted in all
    dec,            \* cte_decoder_t {data, size, position, last_*}, or NoHandle
    decoded,        \* the fields the pull loop has read in this pass (history)
    handler_calls,  \* the calls cte_decoder_run made to __cte_data_handler
    passes,         \* what each pass ended by cte_decoder_reset had delivered
    lastop,         \* the last operation invoked, with its arguments
    ret,            \* what the last operation returned
    aborted         \* lea_abort's message, "" while the process is alive

vars ==
    <<enc, fields, nwrites, dec, decoded, handler_calls, passes, lastop, ret, aborted>>

NoHandle == [null |-> TRUE]

(***************************************************************************)
(* Bounds of the model.                                                    *)
(***************************************************************************)
\* The longest sequence of field writes given to one encoder.
MaxFields == 2

\* How many times one decoder is reset.
MaxResets == 1

(***************************************************************************)
(* Constants of cte.h.  encoder.c and decoder.c name the tag-11 family     *)
(* "vector data" and the tag-00/01 families "vectors"; cte.h carries the   *)
(* same values under its "command data" and "list" names.                  *)
(***************************************************************************)
CTE_VERSION_BYTE == 241
CTE_MAX_TRANSACTION_SIZE == 1232
CTE_TAG_PUBLIC_KEY_VECTOR == 0
CTE_TAG_SIGNATURE_VECTOR == 64
CTE_TAG_IXDATA_FIELD == 128
CTE_TAG_VECTOR_DATA == 192
CTE_TAG_MASK == 192
CTE_CRYPTO_TYPE_ED25519 == 0
CTE_CRYPTO_TYPE_SLH_DSA_128F == 1
CTE_CRYPTO_TYPE_SLH_DSA_192F == 2
CTE_CRYPTO_TYPE_SLH_DSA_256F == 3
CTE_VECTOR_ENTRY_SIZE_MASK == 3
CTE_PUBKEY_SIZE_ED25519 == 32
CTE_PUBKEY_SIZE_SLH_128F == 32
CTE_PUBKEY_SIZE_SLH_192F == 48
CTE_PUBKEY_SIZE_SLH_256F == 64
CTE_SIGNATURE_SIZE_ED25519 == 64
CTE_SIGNATURE_HASH_SIZE_PQC == 32
CTE_VECTOR_MAX_LEN == 15
CTE_IXDATA_SUBTYPE_VECTOR_INDEX == 0
CTE_IXDATA_SUBTYPE_VARINT == 1
CTE_IXDATA_SUBTYPE_FIXED == 2
CTE_IXDATA_SUBTYPE_CONSTANT == 3
CTE_IXDATA_SUBTYPE_MASK == 3
CTE_PEEK_TYPE_PK_VECTOR_SIZE_0 == 0
CTE_PEEK_TYPE_SIG_VECTOR_SIZE_0 == 4
CTE_PEEK_TYPE_IXDATA_VECTOR_INDEX == 8
CTE_PEEK_TYPE_IXDATA_VARINT_ZERO == 9
CTE_PEEK_TYPE_IXDATA_ULEB128 == 10
CTE_PEEK_TYPE_IXDATA_SLEB128 == 11
CTE_PEEK_TYPE_IXDATA_INT8 == 12
CTE_PEEK_TYPE_IXDATA_INT16 == 13
CTE_PEEK_TYPE_IXDATA_INT32 == 14
CTE_PEEK_TYPE_IXDATA_INT64 == 15
CTE_PEEK_TYPE_IXDATA_UINT8 == 16
CTE_PEEK_TYPE_IXDATA_UINT16 == 17
CTE_PEEK_TYPE_IXDATA_UINT32 == 18
CTE_PEEK_TYPE_IXDATA_UINT64 == 19
CTE_PEEK_TYPE_IXDATA_FLOAT32 == 20
CTE_PEEK_TYPE_IXDATA_FLOAT64 == 21
CTE_PEEK_TYPE_IXDATA_CONST_FALSE == 22
CTE_PEEK_TYPE_IXDATA_CONST_TRUE == 23
CTE_PEEK_TYPE_VECTOR_SHORT == 24
CTE_PEEK_TYPE_VECTOR_EXTENDED == 25
CTE_PEEK_EOF == 255
CTE_IXDATA_VARINT_ENC_ZERO == 0
CTE_IXDATA_VARINT_ENC_ULEB128 == 1
CTE_IXDATA_VARINT_ENC_SLEB128 == 2
CTE_IXDATA_FIXED_TYPE_INT8 == 0
CTE_IXDATA_FIXED_TYPE_INT16 == 1
CTE_IXDATA_FIXED_TYPE_INT32 == 2
CTE_IXDATA_FIXED_TYPE_INT64 == 3
CTE_IXDATA_FIXED_TYPE_UINT8 == 4
CTE_IXDATA_FIXED_TYPE_UINT16 == 5
CTE_IXDATA_FIXED_TYPE_UINT32 == 6
CTE_IXDATA_FIXED_TYPE_UINT64 == 7
CTE_IXDATA_FIXED_TYPE_FLOAT32 == 8
CTE_IXDATA_FIXED_TYPE_FLOAT64 == 9
CTE_IXDATA_CONST_VAL_FALSE == 0
CTE_IXDATA_CONST_VAL_TRUE == 1
CTE_VECTOR_INDEX_MAX_VALUE == 15
CTE_VECTOR_FORMAT_FLAG_MASK == 32
CTE_VECTOR_FORMAT_SHORT == 0
CTE_VECTOR_FORMAT_EXTENDED == 32
CTE_VECTOR_SHORT_MAX_LEN == 31
CTE_VECTOR_EXTENDED_MIN_LEN == 32
CTE_VECTOR_EXTENDED_MAX_LEN == 1197
\* test.c's encoder capacity.
BUFFER_SIZE == 2048

(***************************************************************************)
(* C integer arithmetic.                                                   *)
(***************************************************************************)
RECURSIVE BitAnd(_, _)
\* a & b on non-negative ints.
BitAnd(a, b) ==
    IF a = 0 \/ b = 0 THEN 0
    ELSE ((a % 2) * (b % 2)) + 2 * BitAnd(a \div 2, b \div 2)

RECURSIVE BitOr(_, _)
\* a | b on non-negative ints.
BitOr(a, b) ==
    IF a = 0 THEN b
    ELSE IF b = 0 THEN a
    ELSE (IF (a % 2) + (b % 2) > 0 THEN 1 ELSE 0) + 2 * BitOr(a \div 2, b \div 2)

\* a << n and a >> n on non-negative ints.
Shl(a, n) == a * (2 ^ n)
Shr(a, n) == a \div (2 ^ n)

\* The conversion to uint8_t.
U8(a) == a % 256

Bits64 == 0..63

\* The uint64_t whose value is n, for 0 <= n < 2^31.
u64(n) == [b \in Bits64 |-> IF b > 30 THEN 0 ELSE (n \div (2 ^ b)) % 2]

\* The int64_t whose value is n, for -2^31 < n < 2^31 (two's complement).
i64(n) ==
    IF n >= 0 THEN u64(n)
    ELSE [b \in Bits64 |-> 1 - u64((-n) - 1)[b]]

Zero64 == [b \in Bits64 |-> 0]
MinusOne64 == [b \in Bits64 |-> 1]
\* UINT64_MAX has the bits of (int64_t)-1.
UINT64_MAX == MinusOne64
INT64_MIN == [b \in Bits64 |-> IF b = 63 THEN 1 ELSE 0]
INT64_MAX == [b \in Bits64 |-> IF b = 63 THEN 0 ELSE 1]

\* value & 0x7f
Low7(value) ==
    value[0] + 2 * value[1] + 4 * value[2] + 8 * value[3]
    + 16 * value[4] + 32 * value[5] + 64 * value[6]

\* value >>= 7 on uint64_t.
ShrU7(value) == [b \in Bits64 |-> IF b + 7 <= 63 THEN value[b + 7] ELSE 0]

\* value >>= 7 on int64_t (the compilers' arithmetic shift).
ShrS7(value) == [b \in Bits64 |-> IF b + 7 <= 63 THEN value[b + 7] ELSE value[63]]

\* result | ((uint64_t)(g) << shift) for a 7-bit group g and 0 <= shift <= 63;
\* the bits shifted past bit 63 are lost, as the 64-bit shift loses them.
OrShl64(result, g, shift) ==
    [b \in Bits64 |->
        IF b >= shift /\ b < shift + 7 /\ (g \div (2 ^ (b - shift))) % 2 = 1
        THEN 1 ELSE result[b]]

\* result | -((int64_t)1 << shift): every bit from shift upwards is set.
OrSignExtend64(result, shift) ==
    [b \in Bits64 |-> IF b >= shift THEN 1 ELSE result[b]]

(***************************************************************************)
(* Buffers.                                                                *)
(***************************************************************************)
\* buf[idx] = byte
Store(buf, idx, byte) ==
    [j \in (DOMAIN buf) \cup {idx} |-> IF j = idx THEN byte ELSE buf[j]]

\* memcpy(buf + off, src, n), src a function on 0..n-1.
Memcpy(buf, off, src, n) ==
    [j \in (DOMAIN buf) \cup (off..(off + n - 1)) |->
        IF j >= off /\ j < off + n THEN src[j - off] ELSE buf[j]]

\* The n bytes a caller passes in: byte i is seed + step * i (test.c:130-131
\* fills its keys with 0xAA + i, test.c:207 its long payload with 'L').
Fill(seed, step, n) == [i \in 0..(n - 1) |-> (seed + step * i) % 256]

(***************************************************************************)
(* cte.c: the size tables.  An unknown code aborts; the result carries the *)
(* message.                                                                *)
(***************************************************************************)
\* A faulty variant: every known code gets the Ed25519 key size.
get_public_key_size_all_32(type_code) ==
    IF type_code \in 0..3
    THEN [size |-> CTE_PUBKEY_SIZE_ED25519, abort |-> ""]
    ELSE [size |-> 0, abort |-> "Invalid public key type code"]

get_public_key_size(type_code) ==
    CASE type_code = CTE_CRYPTO_TYPE_ED25519 ->
            [size |-> CTE_PUBKEY_SIZE_ED25519, abort |-> ""]
      [] type_code = CTE_CRYPTO_TYPE_SLH_DSA_128F ->
            [size |-> CTE_PUBKEY_SIZE_SLH_128F, abort |-> ""]
      [] type_code = CTE_CRYPTO_TYPE_SLH_DSA_192F ->
            [size |-> CTE_PUBKEY_SIZE_SLH_192F, abort |-> ""]
      [] type_code = CTE_CRYPTO_TYPE_SLH_DSA_256F ->
            [size |-> CTE_PUBKEY_SIZE_SLH_256F, abort |-> ""]
      [] OTHER -> [size |-> 0, abort |-> "Invalid public key type code"]

get_signature_item_size(type_code) ==
    CASE type_code = CTE_CRYPTO_TYPE_ED25519 ->
            [size |-> CTE_SIGNATURE_SIZE_ED25519, abort |-> ""]
      [] type_code \in {CTE_CRYPTO_TYPE_SLH_DSA_128F,
                        CTE_CRYPTO_TYPE_SLH_DSA_192F,
                        CTE_CRYPTO_TYPE_SLH_DSA_256F} ->
            [size |-> CTE_SIGNATURE_HASH_SIZE_PQC, abort |-> ""]
      [] OTHER -> [size |-> 0, abort |-> "Invalid signature type code"]

(***************************************************************************)
(* encoder.c.  Every operation takes the handle and returns the handle as  *)
(* the call leaves it, with abort = the lea_abort message ("" when the     *)
(* call returns).                                                          *)
(***************************************************************************)
\* The macro's condition: TRUE when it calls lea_abort.
CHECK_CAPACITY(encoder, needed) ==
    encoder.position + needed > encoder.capacity

RECURSIVE _encode_uleb128_loop(_, _, _, _)
\* One pass of the do-while body, then the rest of the loop.
_encode_uleb128_loop(handle, write_offset, value, i) ==
    IF CHECK_CAPACITY(handle, write_offset + i + 1)
    THEN [handle |-> handle, n |-> i, abort |-> "Write past end of buffer capacity"]
    ELSE LET shifted == ShrU7(value)
             byte == IF shifted # Zero64 THEN BitOr(Low7(value), 128) ELSE Low7(value)
             h2 == [handle EXCEPT !.buffer = Store(@, write_offset + i, byte)]
         IN  IF shifted # Zero64
             THEN _encode_uleb128_loop(h2, write_offset, shifted, i + 1)
             ELSE [handle |-> h2, n |-> i + 1, abort |-> ""]

\* A faulty variant: the loop is left after the first group, whose
\* continuation bit is never set.
_encode_uleb128_first_group_only(handle, write_offset, value) ==
    IF CHECK_CAPACITY(handle, write_offset + 1)
    THEN [handle |-> handle, n |-> 0, abort |-> "Write past end of buffer capacity"]
    ELSE [handle |-> [handle EXCEPT !.buffer = Store(@, write_offset, Low7(value))],
          n |-> 1, abort |-> ""]

_encode_uleb128(handle, write_offset, value) ==
    _encode_uleb128_loop(handle, write_offset, value, 0)

RECURSIVE _encode_sleb128_loop(_, _, _, _)
\* One pass of the while body, then the rest of the loop.
_encode_sleb128_loop(handle, write_offset, value, i) ==
    IF CHECK_CAPACITY(handle, write_offset + i + 1)
    THEN [handle |-> handle, n |-> i, abort |-> "Write past end of buffer capacity"]
    ELSE LET byte0 == Low7(value)
             sign_bit == BitAnd(byte0, 64)
             shifted == ShrS7(value)
             last == \/ (shifted = Zero64 /\ sign_bit = 0)
                     \/ (shifted = MinusOne64 /\ sign_bit # 0)
             byte == IF last THEN byte0 ELSE BitOr(byte0, 128)
             h2 == [handle EXCEPT !.buffer = Store(@, write_offset + i, byte)]
         IN  IF last
             THEN [handle |-> h2, n |-> i + 1, abort |-> ""]
             ELSE _encode_sleb128_loop(h2, write_offset, shifted, i + 1)

_encode_sleb128(handle, write_offset, value) ==
    _encode_sleb128_loop(handle, write_offset, value, 0)

\* A faulty variant: the payload is copied but position moves past the header
\* only.
write_fixed_data_internal_header_only(handle, type_code, data_size, data) ==
    IF handle = NoHandle
    THEN [handle |-> handle, abort |-> "Null argument to write_fixed_data helper"]
    ELSE IF type_code >= 10
    THEN [handle |-> handle,
          abort |-> "Attempted to write reserved IxData Fixed type code"]
    ELSE IF handle.position + 1 + data_size > handle.capacity
    THEN [handle |-> handle, abort |-> "Write past end of buffer capacity"]
    ELSE [handle |-> [handle EXCEPT
                         !.buffer = Memcpy(Store(@, handle.position, 130 + 4 * type_code),
                                           handle.position + 1, data, data_size),
                         !.position = @ + 1],
          abort |-> ""]

\* A faulty variant: the field is written without asking for room.
write_fixed_data_internal_unchecked(handle, type_code, data_size, data) ==
    IF handle = NoHandle
    THEN [handle |-> handle, abort |-> "Null argument to write_fixed_data helper"]
    ELSE IF type_code >= 10
    THEN [handle |-> handle,
          abort |-> "Attempted to write reserved IxData Fixed type code"]
    ELSE [handle |-> [handle EXCEPT
                         !.buffer = Memcpy(Store(@, handle.position, 130 + 4 * type_code),
                                           handle.position + 1, data, data_size),
                         !.position = @ + 1 + data_size],
          abort |-> ""]

\* data is the object's bytes, a function on 0..data_size-1.
write_fixed_data_internal(handle, type_code, data_size, data) ==
    \* data is &value of the calling writer, never null.
    IF handle = NoHandle
    THEN [handle |-> handle, abort |-> "Null argument to write_fixed_data helper"]
    ELSE IF type_code >= 10
    THEN [handle |-> handle,
          abort |-> "Attempted to write reserved IxData Fixed type code"]
    ELSE LET total_size == 1 + data_size IN
         IF CHECK_CAPACITY(handle, total_size)
         THEN [handle |-> handle, abort |-> "Write past end of buffer capacity"]
         ELSE LET header == U8(BitOr(BitOr(CTE_TAG_IXDATA_FIELD,
                                           Shl(BitAnd(type_code, 15), 2)),
                                     CTE_IXDATA_SUBTYPE_FIXED))
                  h1 == [handle EXCEPT !.buffer = Store(@, handle.position, header),
                                       !.position = @ + 1]
                  h2 == [h1 EXCEPT !.buffer = Memcpy(@, h1.position, data, data_size),
                                   !.position = @ + data_size]
              IN  [handle |-> h2, abort |-> ""]

\* A faulty variant: the version byte is not written.
cte_encoder_init_no_version_byte(capacity) ==
    IF capacity < 1
    THEN [handle |-> NoHandle,
          abort |-> "Capacity must be at least 1 for the version byte"]
    ELSE [handle |-> [buffer |-> <<>>, capacity |-> capacity, position |-> 0],
          abort |-> ""]

cte_encoder_init(capacity) ==
    IF capacity < 1
    THEN [handle |-> NoHandle,
          abort |-> "Capacity must be at least 1 for the version byte"]
    ELSE [handle |-> [buffer |-> Store(<<>>, 0, CTE_VERSION_BYTE),
                      capacity |-> capacity,
                      position |-> 1],
          abort |-> ""]

\* A faulty variant: the version byte is rewritten, the position is kept.
cte_encoder_reset_keeps_position(handle) ==
    IF handle = NoHandle
    THEN [handle |-> handle, abort |-> "Null handle in reset"]
    ELSE [handle |-> [handle EXCEPT !.buffer = Store(@, 0, CTE_VERSION_BYTE)],
          abort |-> ""]

cte_encoder_reset(handle) ==
    IF handle = NoHandle
    THEN [handle |-> handle, abort |-> "Null handle in reset"]
    ELSE LET h0 == [handle EXCEPT !.position = 0] IN
         IF CHECK_CAPACITY(h0, 1)
         THEN [handle |-> h0, abort |-> "Write past end of buffer capacity"]
         ELSE [handle |-> [h0 EXCEPT !.buffer = Store(@, 0, CTE_VERSION_BYTE),
                                     !.position = 1],
               abort |-> ""]

\* The bytes buffer[0 .. position) a caller reads through get_data/get_size.
cte_encoder_get_data(handle) == handle.buffer

cte_encoder_get_size(handle) == handle.position

cte_encoder_write_ixdata_vector_index(handle, index) ==
    IF handle = NoHandle
    THEN [handle |-> handle, abort |-> "Null handle in write_ixdata_vector_index"]
    ELSE IF index > CTE_VECTOR_INDEX_MAX_VALUE
    THEN [handle |-> handle, abort |-> "Vector index value out of range (0-15)"]
    ELSE IF CHECK_CAPACITY(handle, 1)
    THEN [handle |-> handle, abort |-> "Write past end of buffer capacity"]
    ELSE LET header == U8(BitOr(BitOr(CTE_TAG_IXDATA_FIELD,
                                      Shl(BitAnd(index, 15), 2)),
                                CTE_IXDATA_SUBTYPE_VECTOR_INDEX))
         IN  [handle |-> [handle EXCEPT !.buffer = Store(@, handle.position, header),
                                        !.position = @ + 1],
              abort |-> ""]

\* A faulty variant: position moves past the header before the value is
\* encoded.
cte_encoder_write_ixdata_uleb128_header_first(handle, value) ==
    IF handle = NoHandle
    THEN [handle |-> handle, abort |-> "Null handle in write_ixdata_uleb128"]
    ELSE IF CHECK_CAPACITY(handle, 1)
    THEN [handle |-> handle, abort |-> "Write past end of buffer capacity"]
    ELSE LET h1 == [handle EXCEPT !.buffer = Store(@, handle.position, 133),
                                  !.position = @ + 1]
             r == _encode_uleb128(h1, h1.position, value)
         IN  IF r.abort # ""
             THEN [handle |-> r.handle, abort |-> r.abort]
             ELSE [handle |-> [r.handle EXCEPT !.position = @ + r.n],
                   abort |-> ""]

cte_encoder_write_ixdata_uleb128(handle, value) ==
    IF handle = NoHandle
    THEN [handle |-> handle, abort |-> "Null handle in write_ixdata_uleb128"]
    ELSE IF CHECK_CAPACITY(handle, 1)
    THEN [handle |-> handle, abort |-> "Write past end of buffer capacity"]
    ELSE LET header == U8(BitOr(BitOr(CTE_TAG_IXDATA_FIELD,
                                      Shl(CTE_IXDATA_VARINT_ENC_ULEB128, 2)),
                                CTE_IXDATA_SUBTYPE_VARINT))
             h1 == [handle EXCEPT !.buffer = Store(@, handle.position, header)]
             r == _encode_uleb128(h1, h1.position + 1, value)
         IN  IF r.abort # ""
             THEN [handle |-> r.handle, abort |-> r.abort]
             ELSE [handle |-> [r.handle EXCEPT !.position = @ + (1 + r.n)],
                   abort |-> ""]

cte_encoder_write_ixdata_sleb128(handle, value) ==
    IF handle = NoHandle
    THEN [handle |-> handle, abort |-> "Null handle in write_ixdata_sleb128"]
    ELSE IF CHECK_CAPACITY(handle, 1)
    THEN [handle |-> handle, abort |-> "Write past end of buffer capacity"]
    ELSE LET header == U8(BitOr(BitOr(CTE_TAG_IXDATA_FIELD,
                                      Shl(CTE_IXDATA_VARINT_ENC_SLEB128, 2)),
                                CTE_IXDATA_SUBTYPE_VARINT))
             h1 == [handle EXCEPT !.buffer = Store(@, handle.position, header)]
             r == _encode_sleb128(h1, h1.position + 1, value)
         IN  IF r.abort # ""
             THEN [handle |-> r.handle, abort |-> r.abort]
             ELSE [handle |-> [r.handle EXCEPT !.position = @ + (1 + r.n)],
                   abort |-> ""]

\* sizeof(value) in the ten fixed-width writers and readers, by type code.
FixedSizeof(type_code) ==
    CASE type_code \in {CTE_IXDATA_FIXED_TYPE_INT8, CTE_IXDATA_FIXED_TYPE_UINT8} -> 1
      [] type_code \in {CTE_IXDATA_FIXED_TYPE_INT16, CTE_IXDATA_FIXED_TYPE_UINT16} -> 2
      [] type_code \in {CTE_IXDATA_FIXED_TYPE_INT32, CTE_IXDATA_FIXED_TYPE_UINT32,
                        CTE_IXDATA_FIXED_TYPE_FLOAT32} -> 4
      [] type_code \in {CTE_IXDATA_FIXED_TYPE_INT64, CTE_IXDATA_FIXED_TYPE_UINT64,
                        CTE_IXDATA_FIXED_TYPE_FLOAT64} -> 8

\* cte_encoder_write_ixdata_int8 .. cte_encoder_write_ixdata_float64: the writer
\* for type_code passes its own type code, sizeof(value) and &value.
cte_encoder_write_ixdata_fixed(handle, type_code, value) ==
    write_fixed_data_internal(handle, type_code, FixedSizeof(type_code), value)

\* A faulty variant: the header carries tag 01 instead of the IxData tag 10.
cte_encoder_write_ixdata_boolean_tag_01(handle, value) ==
    IF handle = NoHandle
    THEN [handle |-> handle, abort |-> "Null handle in write_ixdata_constant"]
    ELSE IF CHECK_CAPACITY(handle, 1)
    THEN [handle |-> handle, abort |-> "Write past end of buffer capacity"]
    ELSE LET header == 64 + 4 * (IF value THEN 1 ELSE 0) + 3
         IN  [handle |-> [handle EXCEPT !.buffer = Store(@, handle.position, header),
                                        !.position = @ + 1],
              abort |-> ""]

cte_encoder_write_ixdata_boolean(handle, value) ==
    IF handle = NoHandle
    THEN [handle |-> handle, abort |-> "Null handle in write_ixdata_constant"]
    ELSE IF CHECK_CAPACITY(handle, 1)
    THEN [handle |-> handle, abort |-> "Write past end of buffer capacity"]
    ELSE LET value_code == IF value THEN CTE_IXDATA_CONST_VAL_TRUE
                                    ELSE CTE_IXDATA_CONST_VAL_FALSE
         IN  IF value_code >= 2
             THEN [handle |-> handle,
                   abort |-> "Attempted to write reserved IxData Constant value code"]
             ELSE LET header == U8(BitOr(BitOr(CTE_TAG_IXDATA_FIELD,
                                               Shl(BitAnd(value_code, 15), 2)),
                                         CTE_IXDATA_SUBTYPE_CONSTANT))
                  IN  [handle |-> [handle EXCEPT
                                      !.buffer = Store(@, handle.position, header),
                                      !.position = @ + 1],
                       abort |-> ""]

\* A faulty variant: the high length bits are or-ed in without the shift to
\* bits 4-2.
cte_encoder_begin_vector_data_unshifted(handle, length) ==
    IF handle = NoHandle
    THEN [handle |-> handle, ptr |-> 0, abort |-> "Null handle in begin_vector_data"]
    ELSE IF length > CTE_VECTOR_EXTENDED_MAX_LEN
    THEN [handle |-> handle, ptr |-> 0,
          abort |-> "Vector data length out of range (0-1197)"]
    ELSE LET header_size == IF length <= CTE_VECTOR_SHORT_MAX_LEN THEN 1 ELSE 2 IN
         IF CHECK_CAPACITY(handle, header_size + length)
         THEN [handle |-> handle, ptr |-> 0,
               abort |-> "Write past end of buffer capacity"]
         ELSE [handle |-> [handle EXCEPT
                              !.buffer = IF header_size = 1
                                         THEN Store(@, handle.position, 192 + length)
                                         ELSE Store(Store(@, handle.position,
                                                          224 + (length \div 256)),
                                                    handle.position + 1, length % 256),
                              !.position = @ + header_size + length],
               ptr |-> handle.position + header_size,
               abort |-> ""]

\* ptr is the offset of the returned write pointer in the buffer.
cte_encoder_begin_vector_data(handle, length) ==
    IF handle = NoHandle
    THEN [handle |-> handle, ptr |-> 0, abort |-> "Null handle in begin_vector_data"]
    ELSE IF length <= CTE_VECTOR_SHORT_MAX_LEN
    THEN IF CHECK_CAPACITY(handle, 1 + length)
         THEN [handle |-> handle, ptr |-> 0,
               abort |-> "Write past end of buffer capacity"]
         ELSE LET header == U8(BitOr(BitOr(CTE_TAG_VECTOR_DATA, CTE_VECTOR_FORMAT_SHORT),
                                     BitAnd(length, CTE_VECTOR_SHORT_MAX_LEN)))
              IN  [handle |-> [handle EXCEPT
                                  !.buffer = Store(@, handle.position, header),
                                  !.position = @ + 1 + length],
                   ptr |-> handle.position + 1,
                   abort |-> ""]
    ELSE IF length >= CTE_VECTOR_EXTENDED_MIN_LEN /\ length <= CTE_VECTOR_EXTENDED_MAX_LEN
    THEN IF CHECK_CAPACITY(handle, 2 + length)
         THEN [handle |-> handle, ptr |-> 0,
               abort |-> "Write past end of buffer capacity"]
         ELSE LET LH == BitAnd(Shr(length, 8), 7)
                  header1 == U8(BitOr(BitOr(CTE_TAG_VECTOR_DATA,
                                            CTE_VECTOR_FORMAT_EXTENDED),
                                      Shl(LH, 2)))
                  header2 == BitAnd(length, 255)
              IN  [handle |-> [handle EXCEPT
                                  !.buffer = Store(Store(@, handle.position, header1),
                                                   handle.position + 1, header2),
                                  !.position = @ + 2 + length],
                   ptr |-> handle.position + 2,
                   abort |-> ""]
    ELSE [handle |-> handle, ptr |-> 0,
          abort |-> "Vector data length out of range (0-1197)"]

cte_encoder_add_public_key_vector(e, key_count, size_code, keys) ==
    IF e = NoHandle
    THEN [handle |-> e, abort |-> "Null handle in add_public_key_vector"]
    ELSE IF key_count = 0 \/ key_count > CTE_VECTOR_MAX_LEN
    THEN [handle |-> e, abort |-> "Invalid key count"]
    ELSE LET item == get_public_key_size(size_code) IN
         IF item.abort # ""
         THEN [handle |-> e, abort |-> item.abort]
         ELSE LET total_data_size == key_count * item.size
                  total_field_size == 1 + total_data_size
              IN  IF e.position + total_field_size > e.capacity
                  THEN [handle |-> e, abort |-> "Capacity error"]
                  ELSE LET header ==
                               U8(BitOr(BitOr(CTE_TAG_PUBLIC_KEY_VECTOR,
                                              Shl(BitAnd(key_count, 15), 2)),
                                        BitAnd(size_code, CTE_VECTOR_ENTRY_SIZE_MASK)))
                       IN  [handle |-> [e EXCEPT
                                  !.buffer = Memcpy(Store(@, e.position, header),
                                                    e.position + 1, keys,
                                                    total_data_size),
                                  !.position = @ + total_field_size],
                            abort |-> ""]

cte_encoder_add_signature_vector(e, sig_count, size_code, sigs) ==
    IF e = NoHandle
    THEN [handle |-> e, abort |-> "Null handle in add_signature_vector"]
    ELSE IF sig_count = 0 \/ sig_count > CTE_VECTOR_MAX_LEN
    THEN [handle |-> e, abort |-> "Invalid sig count"]
    ELSE LET item == get_signature_item_size(size_code) IN
         IF item.abort # ""
         THEN [handle |-> e, abort |-> item.abort]
         ELSE LET total_data_size == sig_count * item.size
                  total_field_size == 1 + total_data_size
              IN  IF e.position + total_field_size > e.capacity
                  THEN [handle |-> e, abort |-> "Capacity error"]
                  ELSE LET header ==
                               U8(BitOr(BitOr(CTE_TAG_SIGNATURE_VECTOR,
                                              Shl(BitAnd(sig_count, 15), 2)),
                                        BitAnd(size_code, CTE_VECTOR_ENTRY_SIZE_MASK)))
                       IN  [handle |-> [e EXCEPT
                                  !.buffer = Memcpy(Store(@, e.position, header),
                                                    e.position + 1, sigs,
                                                    total_data_size),
                                  !.position = @ + total_field_size],
                            abort |-> ""]

\* begin_vector_data aborts where it would return NULL, so the -1 is dead.
cte_encoder_add_vector_data(e, length, data) ==
    LET b == cte_encoder_begin_vector_data(e, length) IN
    IF b.abort # ""
    THEN [handle |-> b.handle, code |-> -1, abort |-> b.abort]
    ELSE [handle |-> [b.handle EXCEPT !.buffer = Memcpy(@, b.ptr, data, length)],
          code |-> 0,
          abort |-> ""]

(***************************************************************************)
(* decoder.c.  Every operation takes the decoder and returns the decoder   *)
(* as the call leaves it, with abort = the lea_abort message ("" when the  *)
(* call returns) and the call's result.                                    *)
(***************************************************************************)
\* The macro's condition: TRUE when it calls lea_abort.
CHECK_BOUNDS(decoder, needed) ==
    decoder.position + needed > decoder.size

CHECK_BOUNDS_PEEK(decoder, needed) ==
    (decoder.position + needed) <= decoder.size

\* The macro's condition: TRUE when it calls lea_abort.
CHECK_TAG(header, expected_tag) ==
    BitAnd(header, CTE_TAG_MASK) # expected_tag

CHECK_TAG_PEEK(header, expected_tag) ==
    BitAnd(header, CTE_TAG_MASK) = expected_tag

_cte_decoder_peek_header_byte(decoder) ==
    IF decoder = NoHandle
    THEN [byte |-> -1, abort |-> "Null decoder handle in peek_header_byte"]
    ELSE IF ~CHECK_BOUNDS_PEEK(decoder, 1)
    THEN [byte |-> -1, abort |-> ""]
    ELSE [byte |-> decoder.data[decoder.position], abort |-> ""]

_consume_ixdata_header(decoder, expected_subtype) ==
    IF CHECK_BOUNDS(decoder, 1)
    THEN [decoder |-> decoder, header |-> 0, abort |-> "Read past end of buffer"]
    ELSE LET header == decoder.data[decoder.position] IN
         IF CHECK_TAG(header, CTE_TAG_IXDATA_FIELD)
         THEN [decoder |-> decoder, header |-> header, abort |-> "Unexpected field tag"]
         ELSE IF BitAnd(header, CTE_IXDATA_SUBTYPE_MASK) # expected_subtype
         THEN [decoder |-> decoder, header |-> header,
               abort |-> "Unexpected IxData subtype"]
         ELSE [decoder |-> [decoder EXCEPT !.position = @ + 1],
               header |-> header, abort |-> ""]

RECURSIVE _decode_uleb128_loop(_, _, _, _)
\* The for loop from iteration i on (max_bytes = 10).
_decode_uleb128_loop(decoder, result, shift, i) ==
    IF i >= 10
    THEN [decoder |-> decoder, value |-> result,
          abort |-> "Invalid ULEB128 encoding (unterminated sequence > 10 bytes)"]
    ELSE IF CHECK_BOUNDS(decoder, 1)
    THEN [decoder |-> decoder, value |-> result, abort |-> "Read past end of buffer"]
    ELSE LET byte == decoder.data[decoder.position]
             d1 == [decoder EXCEPT !.position = @ + 1]
         IN  IF shift >= 64 \/ (shift = 63 /\ BitAnd(byte, 254) # 0)
             THEN [decoder |-> d1, value |-> result,
                   abort |-> "ULEB128 overflow detected (value > 64 bits)"]
             ELSE LET r1 == OrShl64(result, BitAnd(byte, 127), shift) IN
                  IF BitAnd(byte, 128) = 0
                  THEN [decoder |-> d1, value |-> r1, abort |-> ""]
                  ELSE _decode_uleb128_loop(d1, r1, shift + 7, i + 1)

_decode_uleb128(decoder) ==
    _decode_uleb128_loop(decoder, Zero64, 0, 0)

RECURSIVE _decode_sleb128_loop(_, _, _, _)
\* The for loop from iteration i on (max_bytes = 10).  The left shifts that
\* reach bit 63 keep the low 64 bits, as the 64-bit shift instruction does.
_decode_sleb128_loop(decoder, result, shift, i) ==
    IF i >= 10
    THEN [decoder |-> decoder, value |-> result,
          abort |-> "Invalid SLEB128 encoding (unterminated sequence > 10 bytes)"]
    ELSE IF CHECK_BOUNDS(decoder, 1)
    THEN [decoder |-> decoder, value |-> result, abort |-> "Read past end of buffer"]
    ELSE LET byte == decoder.data[decoder.position]
             d1 == [decoder EXCEPT !.position = @ + 1]
             r1 == OrShl64(result, BitAnd(byte, 127), shift)
             shift1 == shift + 7
         IN  IF BitAnd(byte, 128) = 0
             THEN [decoder |-> d1,
                   value |-> IF shift1 < 64 /\ BitAnd(byte, 64) # 0
                             THEN OrSignExtend64(r1, shift1) ELSE r1,
                   abort |-> ""]
             ELSE IF shift1 >= 64
             THEN [decoder |-> d1, value |-> r1,
                   abort |-> "Invalid SLEB128 encoding (too many bytes/overflow)"]
             ELSE _decode_sleb128_loop(d1, r1, shift1, i + 1)

\* A faulty variant: the groups are assembled without the sign extension.
_decode_sleb128_unsigned(decoder) == _decode_uleb128(decoder)

_decode_sleb128(decoder) ==
    _decode_sleb128_loop(decoder, Zero64, 0, 0)

\* bytes is what memcpy leaves in out_buffer, a function on 0..expected_size-1.
_read_fixed_data(decoder, expected_type_code, expected_size) ==
    IF decoder = NoHandle
    THEN [decoder |-> decoder, bytes |-> <<>>,
          abort |-> "Null argument to _read_fixed_data helper"]
    ELSE LET c == _consume_ixdata_header(decoder, CTE_IXDATA_SUBTYPE_FIXED) IN
         IF c.abort # ""
         THEN [decoder |-> c.decoder, bytes |-> <<>>, abort |-> c.abort]
         ELSE LET TTTT == BitAnd(Shr(c.header, 2), 15) IN
              IF TTTT # expected_type_code
              THEN [decoder |-> c.decoder, bytes |-> <<>>,
                    abort |-> "Unexpected IxData Fixed type code"]
              ELSE IF TTTT >= 10
              THEN [decoder |-> c.decoder, bytes |-> <<>>,
                    abort |-> "Reserved IxData Fixed type code encountered"]
              ELSE IF CHECK_BOUNDS(c.decoder, expected_size)
              THEN [decoder |-> c.decoder, bytes |-> <<>>,
                    abort |-> "Read past end of buffer"]
              ELSE [decoder |-> [c.decoder EXCEPT !.position = @ + expected_size],
                    bytes |-> [k \in 0..(expected_size - 1) |->
                                  c.decoder.data[c.decoder.position + k]],
                    abort |-> ""]

\* A faulty variant: the range of the extended length is not checked.
_parse_vector_data_header_unchecked(decoder) ==
    LET current_pos == decoder.position IN
    IF ~CHECK_BOUNDS_PEEK(decoder, 1)
    THEN [length |-> -1, header_size |-> 0, abort |-> ""]
    ELSE LET header1 == decoder.data[current_pos] IN
         IF ~CHECK_TAG_PEEK(header1, CTE_TAG_VECTOR_DATA)
         THEN [length |-> -1, header_size |-> 0,
               abort |-> "Expected Vector Data tag in peek/parse"]
         ELSE IF BitAnd(header1, CTE_VECTOR_FORMAT_FLAG_MASK) = CTE_VECTOR_FORMAT_SHORT
         THEN [length |-> BitAnd(header1, CTE_VECTOR_SHORT_MAX_LEN),
               header_size |-> 1, abort |-> ""]
         ELSE IF ~CHECK_BOUNDS_PEEK(decoder, 2)
         THEN [length |-> -1, header_size |-> 0, abort |-> ""]
         ELSE [length |-> BitOr(Shl(BitAnd(Shr(header1, 2), 7), 8),
                                decoder.data[current_pos + 1]),
               header_size |-> 2, abort |-> ""]

\* length = -1 stands for SIZE_MAX.
_parse_vector_data_header(decoder) ==
    LET current_pos == decoder.position IN
    IF ~CHECK_BOUNDS_PEEK(decoder, 1)
    THEN [length |-> -1, header_size |-> 0, abort |-> ""]
    ELSE LET header1 == decoder.data[current_pos] IN
         IF ~CHECK_TAG_PEEK(header1, CTE_TAG_VECTOR_DATA)
         THEN [length |-> -1, header_size |-> 0,
               abort |-> "Expected Vector Data tag in peek/parse"]
         ELSE IF BitAnd(header1, CTE_VECTOR_FORMAT_FLAG_MASK) = CTE_VECTOR_FORMAT_SHORT
         THEN [length |-> BitAnd(header1, CTE_VECTOR_SHORT_MAX_LEN),
               header_size |-> 1, abort |-> ""]
         ELSE IF ~CHECK_BOUNDS_PEEK(decoder, 2)
         THEN [length |-> -1, header_size |-> 0, abort |-> ""]
         ELSE LET header2 == decoder.data[current_pos + 1]
                  LH == BitAnd(Shr(header1, 2), 7)
                  LL == header2
                  length == BitOr(Shl(LH, 8), LL)
              IN  IF length < CTE_VECTOR_EXTENDED_MIN_LEN
                     \/ length > CTE_VECTOR_EXTENDED_MAX_LEN
                  THEN [length |-> length, header_size |-> 2,
                        abort |-> "Invalid extended vector data length"]
                  ELSE [length |-> length, header_size |-> 2, abort |-> ""]

\* malloc(size) gives the data buffer no contents.
cte_decoder_init(size) ==
    IF size = 0
    THEN [decoder |-> NoHandle, abort |-> "Zero size buffer"]
    ELSE [decoder |-> [data |-> <<>>,
                       size |-> size,
                       position |-> 0,
                       last_vector_count |-> 0,
                       last_vector_data_len |-> 0],
          abort |-> ""]

\* The pointer the caller fills: the data buffer itself.
cte_decoder_load(decoder) == decoder.data

\* A faulty variant: the position is left where it is.
cte_decoder_reset_keeps_position(decoder) ==
    IF decoder = NoHandle
    THEN [decoder |-> decoder, abort |-> "Null decoder handle in reset"]
    ELSE [decoder |-> decoder, abort |-> ""]

cte_decoder_reset(decoder) ==
    IF decoder = NoHandle
    THEN [decoder |-> decoder, abort |-> "Null decoder handle in reset"]
    ELSE [decoder |-> [decoder EXCEPT !.position = 1], abort |-> ""]

\* The switch on the header byte, after the version check and the EOF test.
cte_decoder_peek_type_switch(header_byte) ==
    LET tag == BitAnd(header_byte, CTE_TAG_MASK)
        size_code == BitAnd(header_byte, CTE_VECTOR_ENTRY_SIZE_MASK)
        ss == BitAnd(header_byte, CTE_IXDATA_SUBTYPE_MASK)
        detail_code == BitAnd(Shr(header_byte, 2), 15)
    IN  CASE tag = CTE_TAG_PUBLIC_KEY_VECTOR ->
                CTE_PEEK_TYPE_PK_VECTOR_SIZE_0 + size_code
          [] tag = CTE_TAG_SIGNATURE_VECTOR ->
                CTE_PEEK_TYPE_SIG_VECTOR_SIZE_0 + size_code
          [] tag = CTE_TAG_IXDATA_FIELD /\ ss = CTE_IXDATA_SUBTYPE_VECTOR_INDEX ->
                CTE_PEEK_TYPE_IXDATA_VECTOR_INDEX
          [] tag = CTE_TAG_IXDATA_FIELD /\ ss = CTE_IXDATA_SUBTYPE_VARINT ->
                (CASE detail_code = CTE_IXDATA_VARINT_ENC_ULEB128 ->
                          CTE_PEEK_TYPE_IXDATA_ULEB128
                   [] detail_code = CTE_IXDATA_VARINT_ENC_SLEB128 ->
                          CTE_PEEK_TYPE_IXDATA_SLEB128
                   [] OTHER -> -1)
          [] tag = CTE_TAG_IXDATA_FIELD /\ ss = CTE_IXDATA_SUBTYPE_FIXED ->
                (CASE detail_code = CTE_IXDATA_FIXED_TYPE_INT8 ->
                          CTE_PEEK_TYPE_IXDATA_INT8
                   [] detail_code = CTE_IXDATA_FIXED_TYPE_INT16 ->
                          CTE_PEEK_TYPE_IXDATA_INT16
                   [] detail_code = CTE_IXDATA_FIXED_TYPE_INT32 ->
                          CTE_PEEK_TYPE_IXDATA_INT32
                   [] detail_code = CTE_IXDATA_FIXED_TYPE_INT64 ->
                          CTE_PEEK_TYPE_IXDATA_INT64
                   [] detail_code = CTE_IXDATA_FIXED_TYPE_UINT8 ->
                          CTE_PEEK_TYPE_IXDATA_UINT8
                   [] detail_code = CTE_IXDATA_FIXED_TYPE_UINT16 ->
                          CTE_PEEK_TYPE_IXDATA_UINT16
                   [] detail_code = CTE_IXDATA_FIXED_TYPE_UINT32 ->
                          CTE_PEEK_TYPE_IXDATA_UINT32
                   [] detail_code = CTE_IXDATA_FIXED_TYPE_UINT64 ->
                          CTE_PEEK_TYPE_IXDATA_UINT64
                   [] detail_code = CTE_IXDATA_FIXED_TYPE_FLOAT32 ->
                          CTE_PEEK_TYPE_IXDATA_FLOAT32
                   [] detail_code = CTE_IXDATA_FIXED_TYPE_FLOAT64 ->
                          CTE_PEEK_TYPE_IXDATA_FLOAT64
                   [] OTHER -> -1)
          [] tag = CTE_TAG_IXDATA_FIELD /\ ss = CTE_IXDATA_SUBTYPE_CONSTANT ->
                (CASE detail_code = CTE_IXDATA_CONST_VAL_FALSE ->
                          CTE_PEEK_TYPE_IXDATA_CONST_FALSE
                   [] detail_code = CTE_IXDATA_CONST_VAL_TRUE ->
                          CTE_PEEK_TYPE_IXDATA_CONST_TRUE
                   [] OTHER -> -1)
          [] tag = CTE_TAG_VECTOR_DATA ->
                IF BitAnd(header_byte, CTE_VECTOR_FORMAT_FLAG_MASK) # 0
                THEN CTE_PEEK_TYPE_VECTOR_EXTENDED
                ELSE CTE_PEEK_TYPE_VECTOR_SHORT
          [] OTHER -> -1

\* A faulty variant: the header byte is consumed by the peek.
cte_decoder_peek_type_consuming(decoder) ==
    IF decoder.position = 0 /\ decoder.data[0] # CTE_VERSION_BYTE
    THEN [decoder |-> decoder, type |-> -1, abort |-> "Invalid version byte"]
    ELSE LET d1 == IF decoder.position = 0
                   THEN [decoder EXCEPT !.position = @ + 1]
                   ELSE decoder
         IN  IF d1.position + 1 > d1.size
             THEN [decoder |-> d1, type |-> CTE_PEEK_EOF, abort |-> ""]
             ELSE [decoder |-> [d1 EXCEPT !.position = @ + 1],
                   type |-> cte_decoder_peek_type_switch(d1.data[d1.position]),
                   abort |-> ""]

cte_decoder_peek_type(decoder) ==
    IF decoder.position = 0 /\ decoder.data[0] # CTE_VERSION_BYTE
    THEN [decoder |-> decoder, type |-> -1, abort |-> "Invalid version byte"]
    ELSE LET d1 == IF decoder.position = 0
                   THEN [decoder EXCEPT !.position = @ + 1]
                   ELSE decoder
             h == _cte_decoder_peek_header_byte(d1)
         IN  IF h.abort # ""
             THEN [decoder |-> d1, type |-> -1, abort |-> h.abort]
             ELSE IF h.byte = -1
             THEN [decoder |-> d1, type |-> CTE_PEEK_EOF, abort |-> ""]
             ELSE [decoder |-> d1, type |-> cte_decoder_peek_type_switch(h.byte),
                   abort |-> ""]

\* A faulty variant: the count N of the header is not checked.
_cte_decoder_read_public_key_vector_data_any_count(decoder) ==
    IF decoder = NoHandle
    THEN [decoder |-> decoder, ptr |-> 0,
          abort |-> "Null decoder handle in read_public_key_vector_data"]
    ELSE IF CHECK_BOUNDS(decoder, 1)
    THEN [decoder |-> decoder, ptr |-> 0, abort |-> "Read past end of buffer"]
    ELSE LET header == decoder.data[decoder.position] IN
         IF CHECK_TAG(header, CTE_TAG_PUBLIC_KEY_VECTOR)
         THEN [decoder |-> decoder, ptr |-> 0, abort |-> "Unexpected field tag"]
         ELSE LET N == BitAnd(Shr(header, 2), 15)
                  item == get_public_key_size(BitAnd(header, CTE_VECTOR_ENTRY_SIZE_MASK))
              IN  IF item.abort # ""
                  THEN [decoder |-> decoder, ptr |-> 0, abort |-> item.abort]
                  ELSE IF CHECK_BOUNDS(decoder, 1 + N * item.size)
                  THEN [decoder |-> decoder, ptr |-> 0,
                        abort |-> "Read past end of buffer"]
                  ELSE [decoder |-> [decoder EXCEPT
                                        !.position = @ + 1 + N * item.size,
                                        !.last_vector_count = N],
                        ptr |-> decoder.position + 1,
                        abort |-> ""]

\* ptr is the offset of the returned data pointer in the data buffer.
_cte_decoder_read_public_key_vector_data(decoder) ==
    IF decoder = NoHandle
    THEN [decoder |-> decoder, ptr |-> 0,
          abort |-> "Null decoder handle in read_public_key_vector_data"]
    ELSE IF CHECK_BOUNDS(decoder, 1)
    THEN [decoder |-> decoder, ptr |-> 0, abort |-> "Read past end of buffer"]
    ELSE LET header == decoder.data[decoder.position] IN
         IF CHECK_TAG(header, CTE_TAG_PUBLIC_KEY_VECTOR)
         THEN [decoder |-> decoder, ptr |-> 0, abort |-> "Unexpected field tag"]
         ELSE LET N == BitAnd(Shr(header, 2), 15)
                  TT == BitAnd(header, CTE_VECTOR_ENTRY_SIZE_MASK)
              IN  IF N = 0 \/ N > CTE_VECTOR_MAX_LEN
                  THEN [decoder |-> decoder, ptr |-> 0,
                        abort |-> "Invalid public key vector length read (N must be 1-15)"]
                  ELSE LET item == get_public_key_size(TT) IN
                       IF item.abort # ""
                       THEN [decoder |-> decoder, ptr |-> 0, abort |-> item.abort]
                       ELSE LET total_data_size == N * item.size IN
                            IF CHECK_BOUNDS(decoder, 1 + total_data_size)
                            THEN [decoder |-> decoder, ptr |-> 0,
                                  abort |-> "Read past end of buffer"]
                            ELSE [decoder |-> [decoder EXCEPT
                                      !.position = @ + 1 + total_data_size,
                                      !.last_vector_count = N],
                                  ptr |-> decoder.position + 1,
                                  abort |-> ""]

_cte_decoder_read_signature_vector_data(decoder) ==
    IF decoder = NoHandle
    THEN [decoder |-> decoder, ptr |-> 0,
          abort |-> "Null decoder handle in read_signature_vector_data"]
    ELSE IF CHECK_BOUNDS(decoder, 1)
    THEN [decoder |-> decoder, ptr |-> 0, abort |-> "Read past end of buffer"]
    ELSE LET header == decoder.data[decoder.position] IN
         IF CHECK_TAG(header, CTE_TAG_SIGNATURE_VECTOR)
         THEN [decoder |-> decoder, ptr |-> 0, abort |-> "Unexpected field tag"]
         ELSE LET N == BitAnd(Shr(header, 2), 15)
                  TT == BitAnd(header, CTE_VECTOR_ENTRY_SIZE_MASK)
              IN  IF N = 0 \/ N > CTE_VECTOR_MAX_LEN
                  THEN [decoder |-> decoder, ptr |-> 0,
                        abort |-> "Invalid signature vector length read (N must be 1-15)"]
                  ELSE LET item == get_signature_item_size(TT) IN
                       IF item.abort # ""
                       THEN [decoder |-> decoder, ptr |-> 0, abort |-> item.abort]
                       ELSE LET total_data_size == N * item.size IN
                            IF CHECK_BOUNDS(decoder, 1 + total_data_size)
                            THEN [decoder |-> decoder, ptr |-> 0,
                                  abort |-> "Read past end of buffer"]
                            ELSE [decoder |-> [decoder EXCEPT
                                      !.position = @ + 1 + total_data_size,
                                      !.last_vector_count = N],
                                  ptr |-> decoder.position + 1,
                                  abort |-> ""]

_cte_decoder_read_ixdata_vector_index(decoder) ==
    IF decoder = NoHandle
    THEN [decoder |-> decoder, index |-> 0,
          abort |-> "Null decoder handle in read_ixdata_vector_index"]
    ELSE LET c == _consume_ixdata_header(decoder, CTE_IXDATA_SUBTYPE_VECTOR_INDEX) IN
         IF c.abort # ""
         THEN [decoder |-> c.decoder, index |-> 0, abort |-> c.abort]
         ELSE [decoder |-> c.decoder, index |-> BitAnd(Shr(c.header, 2), 15),
               abort |-> ""]

\* A faulty variant: the encoding scheme of the header is not compared.
_cte_decoder_read_ixdata_uleb128_any_scheme(decoder) ==
    LET c == _consume_ixdata_header(decoder, CTE_IXDATA_SUBTYPE_VARINT) IN
    IF c.abort # ""
    THEN [decoder |-> c.decoder, value |-> Zero64, abort |-> c.abort]
    ELSE _decode_uleb128(c.decoder)

_cte_decoder_read_ixdata_uleb128(decoder) ==
    IF decoder = NoHandle
    THEN [decoder |-> decoder, value |-> Zero64,
          abort |-> "Null decoder handle in read_ixdata_uleb128"]
    ELSE LET c == _consume_ixdata_header(decoder, CTE_IXDATA_SUBTYPE_VARINT) IN
         IF c.abort # ""
         THEN [decoder |-> c.decoder, value |-> Zero64, abort |-> c.abort]
         ELSE LET EEEE == BitAnd(Shr(c.header, 2), 15) IN
              IF EEEE # CTE_IXDATA_VARINT_ENC_ULEB128
              THEN [decoder |-> c.decoder, value |-> Zero64,
                    abort |-> "Expected Varint encoding scheme 1 (ULEB128)"]
              ELSE IF EEEE >= 3
              THEN [decoder |-> c.decoder, value |-> Zero64,
                    abort |-> "Reserved IxData Varint encoding scheme encountered"]
              ELSE _decode_uleb128(c.decoder)

_cte_decoder_read_ixdata_sleb128(decoder) ==
    IF decoder = NoHandle
    THEN [decoder |-> decoder, value |-> Zero64,
          abort |-> "Null decoder handle in read_ixdata_sleb128"]
    ELSE LET c == _consume_ixdata_header(decoder, CTE_IXDATA_SUBTYPE_VARINT) IN
         IF c.abort # ""
         THEN [decoder |-> c.decoder, value |-> Zero64, abort |-> c.abort]
         ELSE LET EEEE == BitAnd(Shr(c.header, 2), 15) IN
              IF EEEE # CTE_IXDATA_VARINT_ENC_SLEB128
              THEN [decoder |-> c.decoder, value |-> Zero64,
                    abort |-> "Expected Varint encoding scheme 2 (SLEB128)"]
              ELSE IF EEEE >= 3
              THEN [decoder |-> c.decoder, value |-> Zero64,
                    abort |-> "Reserved IxData Varint encoding scheme encountered"]
              ELSE _decode_sleb128(c.decoder)

\* _cte_decoder_read_ixdata_int8 .. _cte_decoder_read_ixdata_float64: the reader
\* for type_code passes its own type code and sizeof(value).
_cte_decoder_read_ixdata_fixed(decoder, type_code) ==
    _read_fixed_data(decoder, type_code, FixedSizeof(type_code))

_cte_decoder_read_ixdata_boolean(decoder) ==
    IF decoder = NoHandle
    THEN [decoder |-> decoder, value |-> FALSE,
          abort |-> "Null decoder handle in read_ixdata_constant"]
    ELSE LET c == _consume_ixdata_header(decoder, CTE_IXDATA_SUBTYPE_CONSTANT) IN
         IF c.abort # ""
         THEN [decoder |-> c.decoder, value |-> FALSE, abort |-> c.abort]
         ELSE LET XXXX == BitAnd(Shr(c.header, 2), 15) IN
              IF XXXX = CTE_IXDATA_CONST_VAL_FALSE
              THEN [decoder |-> c.decoder, value |-> FALSE, abort |-> ""]
              ELSE IF XXXX = CTE_IXDATA_CONST_VAL_TRUE
              THEN [decoder |-> c.decoder, value |-> TRUE, abort |-> ""]
              ELSE [decoder |-> c.decoder, value |-> FALSE,
                    abort |-> "Reserved IxData Constant value code encountered"]

\* A faulty variant: position moves past the payload only, not the header.
_cte_decoder_read_vector_data_payload_header_kept(decoder) ==
    LET p == _parse_vector_data_header(decoder) IN
    IF p.abort # ""
    THEN [decoder |-> decoder, ptr |-> 0, abort |-> p.abort]
    ELSE IF p.length = -1 \/ p.header_size = 0
    THEN [decoder |-> decoder, ptr |-> 0,
          abort |-> "Failed to parse vector data header before read (EOF or internal error)"]
    ELSE IF CHECK_BOUNDS(decoder, p.header_size + p.length)
    THEN [decoder |-> decoder, ptr |-> 0, abort |-> "Read past end of buffer"]
    ELSE [decoder |-> [decoder EXCEPT !.position = @ + p.length,
                                      !.last_vector_data_len = p.length],
          ptr |-> decoder.position + p.header_size,
          abort |-> ""]

\* A faulty variant: the payload is not compared with what the buffer holds.
_cte_decoder_read_vector_data_payload_unbounded(decoder) ==
    LET p == _parse_vector_data_header(decoder) IN
    IF p.abort # ""
    THEN [decoder |-> decoder, ptr |-> 0, abort |-> p.abort]
    ELSE IF p.length = -1 \/ p.header_size = 0
    THEN [decoder |-> decoder, ptr |-> 0,
          abort |-> "Failed to parse vector data header before read (EOF or internal error)"]
    ELSE [decoder |-> [decoder EXCEPT
                           !.position = @ + p.header_size + p.length,
                           !.last_vector_data_len = p.length],
          ptr |-> decoder.position + p.header_size,
          abort |-> ""]

\* A faulty variant: the payload length is not recorded.
_cte_decoder_read_vector_data_payload_unrecorded(decoder) ==
    LET p == _parse_vector_data_header(decoder) IN
    IF p.abort # ""
    THEN [decoder |-> decoder, ptr |-> 0, abort |-> p.abort]
    ELSE IF p.length = -1 \/ p.header_size = 0
    THEN [decoder |-> decoder, ptr |-> 0,
          abort |-> "Failed to parse vector data header before read (EOF or internal error)"]
    ELSE IF CHECK_BOUNDS(decoder, p.header_size + p.length)
    THEN [decoder |-> decoder, ptr |-> 0, abort |-> "Read past end of buffer"]
    ELSE [decoder |-> [decoder EXCEPT !.position = @ + p.header_size + p.length],
          ptr |-> decoder.position + p.header_size,
          abort |-> ""]

_cte_decoder_read_vector_data_payload(decoder) ==
    IF decoder = NoHandle
    THEN [decoder |-> decoder, ptr |-> 0,
          abort |-> "Null decoder handle in read_vector_data_payload"]
    ELSE LET p == _parse_vector_data_header(decoder) IN
         IF p.abort # ""
         THEN [decoder |-> decoder, ptr |-> 0, abort |-> p.abort]
         ELSE IF p.length = -1 \/ p.header_size = 0
         THEN [decoder |-> decoder, ptr |-> 0,
               abort |-> "Failed to parse vector data header before read (EOF or internal error)"]
         ELSE IF CHECK_BOUNDS(decoder, p.header_size + p.length)
         THEN [decoder |-> decoder, ptr |-> 0, abort |-> "Read past end of buffer"]
         ELSE [decoder |-> [decoder EXCEPT
                                !.position = @ + p.header_size + p.length,
                                !.last_vector_data_len = p.length],
               ptr |-> decoder.position + p.header_size,
               abort |-> ""]

cte_decoder_get_last_vector_count(decoder) == decoder.last_vector_count

cte_decoder_get_last_vector_data_payload_length(decoder) ==
    decoder.last_vector_data_len

IsPkVectorType(type) ==
    type >= CTE_PEEK_TYPE_PK_VECTOR_SIZE_0 /\ type <= CTE_PEEK_TYPE_PK_VECTOR_SIZE_0 + 3

IsSigVectorType(type) ==
    type >= CTE_PEEK_TYPE_SIG_VECTOR_SIZE_0 /\ type <= CTE_PEEK_TYPE_SIG_VECTOR_SIZE_0 + 3

IsFixedType(type) ==
    type >= CTE_PEEK_TYPE_IXDATA_INT8 /\ type <= CTE_PEEK_TYPE_IXDATA_FLOAT64

\* One case of the switch on the peeked type: the read for that type, and
\* field = what the caller then holds (for run: what it hands to the handler).
\* unhandled is the message of the default case.
DispatchRead(decoder, type, unhandled) ==
    CASE IsPkVectorType(type) ->
            LET r == _cte_decoder_read_public_key_vector_data(decoder)
                count == cte_decoder_get_last_vector_count(r.decoder)
                item == get_public_key_size(type - CTE_PEEK_TYPE_PK_VECTOR_SIZE_0)
            IN  [decoder |-> r.decoder, abort |-> r.abort,
                 field |-> [type |-> type, ptr |-> r.ptr, size |-> count * item.size]]
      [] IsSigVectorType(type) ->
            LET r == _cte_decoder_read_signature_vector_data(decoder)
                count == cte_decoder_get_last_vector_count(r.decoder)
                item == get_signature_item_size(type - CTE_PEEK_TYPE_SIG_VECTOR_SIZE_0)
            IN  [decoder |-> r.decoder, abort |-> r.abort,
                 field |-> [type |-> type, ptr |-> r.ptr, size |-> count * item.size]]
      [] type = CTE_PEEK_TYPE_IXDATA_VECTOR_INDEX ->
            LET r == _cte_decoder_read_ixdata_vector_index(decoder)
            IN  [decoder |-> r.decoder, abort |-> r.abort,
                 field |-> [type |-> type, index |-> r.index, size |-> 1]]
      [] type = CTE_PEEK_TYPE_IXDATA_ULEB128 ->
            LET r == _cte_decoder_read_ixdata_uleb128(decoder)
            IN  [decoder |-> r.decoder, abort |-> r.abort,
                 field |-> [type |-> type, value |-> r.value, size |-> 8]]
      [] type = CTE_PEEK_TYPE_IXDATA_SLEB128 ->
            LET r == _cte_decoder_read_ixdata_sleb128(decoder)
            IN  [decoder |-> r.decoder, abort |-> r.abort,
                 field |-> [type |-> type, value |-> r.value, size |-> 8]]
      [] type \in {CTE_PEEK_TYPE_IXDATA_CONST_FALSE, CTE_PEEK_TYPE_IXDATA_CONST_TRUE} ->
            LET r == _cte_decoder_read_ixdata_boolean(decoder)
            IN  [decoder |-> r.decoder, abort |-> r.abort,
                 field |-> [type |-> type, bool |-> r.value, size |-> 1]]
      [] type \in {CTE_PEEK_TYPE_VECTOR_SHORT, CTE_PEEK_TYPE_VECTOR_EXTENDED} ->
            LET r == _cte_decoder_read_vector_data_payload(decoder)
                len == cte_decoder_get_last_vector_data_payload_length(r.decoder)
            IN  [decoder |-> r.decoder, abort |-> r.abort,
                 field |-> [type |-> type, ptr |-> r.ptr, size |-> len]]
      [] IsFixedType(type) ->
            LET type_code == type - CTE_PEEK_TYPE_IXDATA_INT8
                r == _cte_decoder_read_ixdata_fixed(decoder, type_code)
            IN  [decoder |-> r.decoder, abort |-> r.abort,
                 field |-> [type |-> type, bytes |-> r.bytes,
                            size |-> FixedSizeof(type_code)]]
      [] OTHER ->
            [decoder |-> decoder, abort |-> unhandled, field |-> [type |-> type]]

RECURSIVE cte_decoder_run_loop(_, _)
\* The while loop: peek, read, hand the field to __cte_data_handler, repeat.
cte_decoder_run_loop(decoder, calls) ==
    LET p == cte_decoder_peek_type(decoder) IN
    IF p.abort # ""
    THEN [decoder |-> p.decoder, ret |-> -1, calls |-> calls, abort |-> p.abort]
    ELSE IF p.type = CTE_PEEK_EOF
    THEN [decoder |-> p.decoder, ret |-> 0, calls |-> calls, abort |-> ""]
    ELSE LET r == DispatchRead(p.decoder, p.type,
                               "Unknown or unhandled peek type in run loop")
         IN  IF r.abort # ""
             THEN [decoder |-> r.decoder, ret |-> -1, calls |-> calls,
                   abort |-> r.abort]
             ELSE cte_decoder_run_loop(r.decoder, Append(calls, r.field))

cte_decoder_run(decoder) ==
    IF decoder = NoHandle
    THEN [decoder |-> decoder, ret |-> -1, calls |-> <<>>,
          abort |-> "Null decoder handle in run"]
    ELSE LET first == cte_decoder_peek_type(decoder) IN
         IF first.abort # ""
         THEN [decoder |-> first.decoder, ret |-> -1, calls |-> <<>>,
               abort |-> first.abort]
         ELSE IF first.type = CTE_PEEK_EOF
         THEN [decoder |-> first.decoder, ret |-> 0, calls |-> <<>>, abort |-> ""]
         ELSE cte_decoder_run_loop(first.decoder, <<>>)

(***************************************************************************)
(* The inputs the callers pass.                                            *)
(***************************************************************************)
\* A C array given by its elements: a function on 0..n-1.
Bytes(s) == [i \in 0..(Len(s) - 1) |-> s[i + 1]]

\* Encoder capacities: none, the version byte alone, just under and just at
\* what one ULEB128(123456) field is given, exactly scenario 4's 67 bytes,
\* and test.c's BUFFER_SIZE.
Capacities == {0, 1, 5, 6, 67, BUFFER_SIZE}

\* The indexes of test.c and of the scenarios, the largest, and one past it.
IndexInputs == {1, 5, 15, 16}

\* One, two, three and ten LEB128 bytes.
Uleb128Inputs == {u64(0), u64(128), u64(123456), UINT64_MAX}

\* The least values of either sign that need a second byte, test.c's value,
\* and a ten-byte one.
Sleb128Inputs == {i64(64), i64(-65), i64(-78910), INT64_MIN}

\* One value per fixed-width writer, as the object's bytes (little-endian, the
\* byte order of the targets): test.c:159-193's values, and (int64_t)-1.
FixedInputs ==
    {[type_code |-> CTE_IXDATA_FIXED_TYPE_INT8, bytes |-> Bytes(<<136>>)],
     [type_code |-> CTE_IXDATA_FIXED_TYPE_INT16, bytes |-> Bytes(<<208, 138>>)],
     [type_code |-> CTE_IXDATA_FIXED_TYPE_INT32, bytes |-> Bytes(<<24, 252, 255, 255>>)],
     [type_code |-> CTE_IXDATA_FIXED_TYPE_INT64,
      bytes |-> Bytes(<<255, 255, 255, 255, 255, 255, 255, 255>>)],
     [type_code |-> CTE_IXDATA_FIXED_TYPE_UINT8, bytes |-> Bytes(<<250>>)],
     [type_code |-> CTE_IXDATA_FIXED_TYPE_UINT16, bytes |-> Bytes(<<96, 234>>)],
     [type_code |-> CTE_IXDATA_FIXED_TYPE_UINT32, bytes |-> Bytes(<<0, 40, 107, 238>>)],
     [type_code |-> CTE_IXDATA_FIXED_TYPE_UINT64,
      bytes |-> Bytes(<<234, 22, 176, 76, 2, 0, 0, 0>>)],
     [type_code |-> CTE_IXDATA_FIXED_TYPE_FLOAT32, bytes |-> Bytes(<<208, 15, 73, 64>>)],
     [type_code |-> CTE_IXDATA_FIXED_TYPE_FLOAT64,
      bytes |-> Bytes(<<221, 89, 140, 66, 202, 192, 243, 63>>)]}

\* Vector-data payloads: the lengths around both format boundaries; the bytes
\* are seed + step * i.
VectorDataInputs ==
    {[length |-> 0, seed |-> 0, step |-> 0],
     [length |-> 13, seed |-> 83, step |-> 1],
     [length |-> 31, seed |-> 1, step |-> 7],
     [length |-> 32, seed |-> 255, step |-> 1],
     [length |-> 150, seed |-> 76, step |-> 0],
     [length |-> 1197, seed |-> 9, step |-> 3],
     [length |-> 1198, seed |-> 9, step |-> 3]}

\* The same through the one-call wrapper: an accepted and a refused length.
AddVectorDataInputs ==
    {[length |-> 14, seed |-> 97, step |-> 1],
     [length |-> 1199, seed |-> 0, step |-> 0]}

\* Key vectors as <<count, size code>>: counts 1, 2 and 15 with key sizes 32,
\* 48 and 64, then the counts and the size code just outside the format.
PkVectorInputs ==
    {[count |-> in[1], size_code |-> in[2], seed |-> 170, step |-> 1] :
        in \in {<<2, 0>>, <<15, 2>>, <<1, 3>>, <<0, 0>>, <<16, 0>>, <<1, 4>>}}

\* Signature vectors likewise, with item sizes 64 and 32.
SigVectorInputs ==
    {[count |-> in[1], size_code |-> in[2], seed |-> 187, step |-> 1] :
        in \in {<<1, 0>>, <<15, 1>>, <<0, 0>>, <<16, 1>>, <<1, 4>>}}

\* Hand-made transactions.  n copies of one byte:
Rep(byte, n) == [i \in 1..n |-> byte]

\* Extended vector-data headers (tag 11, bit 5 set) with every value of the
\* length and padding bits, then a second length byte; no payload follows.
ExtendedHeaderBuffers ==
    {<<CTE_VERSION_BYTE, h1, h2>> : h1 \in 224..255, h2 \in {0, 31, 32, 173, 174, 255}}

\* Complete extended vector-data fields of 32 and of 1197 bytes, with every
\* value pp of bits 1..0 of the first header byte.
ExtendedFieldBuffers ==
    {<<CTE_VERSION_BYTE, 224 + pp, 32>> \o Rep(7, 32) : pp \in 0..3}
    \cup {<<CTE_VERSION_BYTE, 240 + pp, 173>> \o Rep(9, 1197) : pp \in {0, 2}}

\* Varint fields: the value zero in its encodings, alone and before an index;
\* ULEB128 and SLEB128 payloads of 10 and 11 continuation bytes; the largest
\* 10-byte payloads and the least ones that overflow; SLEB128 payloads whose
\* tenth byte is 0x00, 0x7F (the two that continue the sign), 0x01 and 0x02.
VarintBuffers ==
    {<<CTE_VERSION_BYTE, 133, 0>>,
     <<CTE_VERSION_BYTE, 133, 0, 148>>,
     <<CTE_VERSION_BYTE, 129, 148>>,
     <<CTE_VERSION_BYTE, 137, 0>>,
     <<CTE_VERSION_BYTE, 133>> \o Rep(128, 10),
     <<CTE_VERSION_BYTE, 133>> \o Rep(128, 11),
     <<CTE_VERSION_BYTE, 133>> \o Rep(255, 9) \o <<1>>,
     <<CTE_VERSION_BYTE, 133>> \o Rep(255, 9) \o <<2>>,
     <<CTE_VERSION_BYTE, 137>> \o Rep(128, 10),
     <<CTE_VERSION_BYTE, 137>> \o Rep(128, 11),
     <<CTE_VERSION_BYTE, 137>> \o Rep(255, 9) \o <<127>>,
     <<CTE_VERSION_BYTE, 137>> \o Rep(255, 9) \o <<0>>,
     <<CTE_VERSION_BYTE, 137>> \o Rep(128, 9) \o <<127>>,
     <<CTE_VERSION_BYTE, 137>> \o Rep(128, 9) \o <<1>>,
     <<CTE_VERSION_BYTE, 137>> \o Rep(128, 9) \o <<2>>}

\* A well-formed vector field, then a header its reader refuses: vector data
\* of 1 byte before extended lengths 31 and 1198; a signature vector before
\* a key vector with N = 0, and a key vector before a signature vector with
\* N = 0.
RefusedSecondFieldBuffers ==
    {<<CTE_VERSION_BYTE, 193, 5, 224, 31>>,
     <<CTE_VERSION_BYTE, 193, 5, 240, 174>>,
     <<CTE_VERSION_BYTE, 69>> \o Rep(3, 32) \o <<0>>,
     <<CTE_VERSION_BYTE, 4>> \o Rep(1, 32) \o <<64>>}

\* Well-formed fields on 1233 bytes, one more than CTE_MAX_TRANSACTION_SIZE:
\* vector data of 1197 and of 31 bytes, then an index.
OversizeBuffer ==
    <<CTE_VERSION_BYTE, 240, 173>> \o Rep(9, 1197) \o <<223>> \o Rep(5, 31) \o <<148>>

\* The well-formed transactions whose fields are the one-byte VARINT_ZERO
\* field, alone and after an index field.
VarintZeroTransactions == {<<241, 129>>, <<241, 148, 129>>}

\* Buffers whose byte 0 a reader takes for a header: an index field in place
\* of the version byte, and a version byte that reads as the extended
\* vector-data header of length 1024 + 6, with as many bytes after it.
UncheckedVersionBuffers ==
    {<<148, 148>>, <<CTE_VERSION_BYTE, 6>> \o Rep(0, 1030)}

\* What a caller loads: every header byte after the version byte, the empty
\* transaction, a wrong version byte, no bytes at all, and the buffers above.
CraftedBuffers ==
    {<<CTE_VERSION_BYTE, h>> : h \in 0..255}
    \cup {<<CTE_VERSION_BYTE>>, <<240, 148>>, <<>>}
    \cup RefusedSecondFieldBuffers
    \cup ExtendedHeaderBuffers
    \cup ExtendedFieldBuffers
    \cup VarintBuffers
    \cup {OversizeBuffer}
    \cup VarintZeroTransactions
    \cup UncheckedVersionBuffers

(***************************************************************************)
(* The state machine.                                                      *)
(***************************************************************************)
Init ==
    /\ enc = NoHandle
    /\ fields = <<>>
    /\ nwrites = 0
    /\ dec = NoHandle
    /\ decoded = <<>>
    /\ handler_calls = <<>>
    /\ passes = <<>>
    /\ lastop = [name |-> "start"]
    /\ ret = [void |-> TRUE]
    /\ aborted = ""

EncoderInit ==
    /\ aborted = ""
    /\ enc = NoHandle
    /\ dec = NoHandle
    /\ \E capacity \in Capacities :
        LET r == cte_encoder_init(capacity) IN
        /\ enc' = r.handle
        /\ aborted' = r.abort
        /\ lastop' = [name |-> "cte_encoder_init", capacity |-> capacity]
    /\ ret' = [void |-> TRUE]
    /\ UNCHANGED <<fields, nwrites, dec, decoded, handler_calls, passes>>

EncoderReset ==
    /\ aborted = ""
    /\ enc # NoHandle
    /\ dec = NoHandle
    /\ LET r == cte_encoder_reset(enc) IN
       /\ enc' = r.handle
       /\ aborted' = r.abort
    /\ fields' = <<>>
    /\ lastop' = [name |-> "cte_encoder_reset"]
    /\ ret' = [void |-> TRUE]
    /\ UNCHANGED <<nwrites, dec, decoded, handler_calls, passes>>

\* A caller may write while the encoder lives and has not been read out.
CanWrite ==
    /\ aborted = ""
    /\ enc # NoHandle
    /\ dec = NoHandle
    /\ nwrites < MaxFields

\* What a write call leaves: r is the operation's result, call the call made.
Written(r, call, result) ==
    /\ enc' = r.handle
    /\ aborted' = r.abort
    /\ fields' = IF r.abort = "" THEN Append(fields, call) ELSE fields
    /\ nwrites' = IF r.abort = "" THEN nwrites + 1 ELSE nwrites
    /\ lastop' = call
    /\ ret' = IF r.abort = "" THEN result ELSE [void |-> TRUE]
    /\ UNCHANGED <<dec, decoded, handler_calls, passes>>

WriteIndex ==
    /\ CanWrite
    /\ \E index \in IndexInputs :
        Written(cte_encoder_write_ixdata_vector_index(enc, index),
                [name |-> "cte_encoder_write_ixdata_vector_index", index |-> index],
                [void |-> TRUE])

WriteUleb128 ==
    /\ CanWrite
    /\ \E value \in Uleb128Inputs :
        Written(cte_encoder_write_ixdata_uleb128(enc, value),
                [name |-> "cte_encoder_write_ixdata_uleb128", value |-> value],
                [void |-> TRUE])

WriteSleb128 ==
    /\ CanWrite
    /\ \E value \in Sleb128Inputs :
        Written(cte_encoder_write_ixdata_sleb128(enc, value),
                [name |-> "cte_encoder_write_ixdata_sleb128", value |-> value],
                [void |-> TRUE])

WriteFixed ==
    /\ CanWrite
    /\ \E in \in FixedInputs :
        Written(cte_encoder_write_ixdata_fixed(enc, in.type_code, in.bytes),
                [name |-> "cte_encoder_write_ixdata_fixed",
                 type_code |-> in.type_code, bytes |-> in.bytes],
                [void |-> TRUE])

WriteBoolean ==
    /\ CanWrite
    /\ \E value \in BOOLEAN :
        Written(cte_encoder_write_ixdata_boolean(enc, value),
                [name |-> "cte_encoder_write_ixdata_boolean", bool |-> value],
                [void |-> TRUE])

\* test.c:202-211, ctetool.c:249: the caller reserves the payload and fills it
\* through the returned pointer.
BeginVectorData ==
    /\ CanWrite
    /\ \E in \in VectorDataInputs :
        LET b == cte_encoder_begin_vector_data(enc, in.length)
            filled == IF b.abort # "" THEN b.handle
                      ELSE [b.handle EXCEPT
                               !.buffer = Memcpy(@, b.ptr,
                                                 Fill(in.seed, in.step, in.length),
                                                 in.length)]
        IN  Written([handle |-> filled, abort |-> b.abort],
                    [name |-> "cte_encoder_begin_vector_data", length |-> in.length,
                     seed |-> in.seed, step |-> in.step],
                    [ptr |-> b.ptr])

AddVectorData ==
    /\ CanWrite
    /\ \E in \in AddVectorDataInputs :
        LET r == cte_encoder_add_vector_data(enc, in.length,
                                             Fill(in.seed, in.step, in.length))
        IN  Written(r,
                    [name |-> "cte_encoder_add_vector_data", length |-> in.length,
                     seed |-> in.seed, step |-> in.step],
                    [code |-> r.code])

AddPublicKeyVector ==
    /\ CanWrite
    /\ \E in \in PkVectorInputs :
        Written(cte_encoder_add_public_key_vector(
                    enc, in.count, in.size_code,
                    Fill(in.seed, in.step, in.count * 64)),
                [name |-> "cte_encoder_add_public_key_vector", count |-> in.count,
                 size_code |-> in.size_code, seed |-> in.seed, step |-> in.step],
                [code |-> 0])

AddSignatureVector ==
    /\ CanWrite
    /\ \E in \in SigVectorInputs :
        Written(cte_encoder_add_signature_vector(
                    enc, in.count, in.size_code,
                    Fill(in.seed, in.step, in.count * 64)),
                [name |-> "cte_encoder_add_signature_vector", count |-> in.count,
                 size_code |-> in.size_code, seed |-> in.seed, step |-> in.step],
                [code |-> 0])

\* test.c:214-223: a decoder of exactly get_size bytes, filled from get_data.
LoadEncoded ==
    /\ aborted = ""
    /\ enc # NoHandle
    /\ dec = NoHandle
    /\ LET size == cte_encoder_get_size(enc)
           r == cte_decoder_init(size)
       IN  /\ aborted' = r.abort
           /\ dec' = IF r.abort # "" THEN r.decoder
                     ELSE [r.decoder EXCEPT
                              !.data = Memcpy(cte_decoder_load(r.decoder), 0,
                                              cte_encoder_get_data(enc), size)]
           /\ lastop' = [name |-> "load", size |-> size]
    /\ ret' = [void |-> TRUE]
    /\ UNCHANGED <<enc, fields, nwrites, decoded, handler_calls, passes>>

\* ctetool.c:346-348: a decoder of the input's length, filled with the input.
LoadCrafted ==
    /\ aborted = ""
    /\ enc = NoHandle
    /\ dec = NoHandle
    /\ \E buf \in CraftedBuffers :
        LET r == cte_decoder_init(Len(buf)) IN
        /\ aborted' = r.abort
        /\ dec' = IF r.abort # "" THEN r.decoder
                  ELSE [r.decoder EXCEPT
                           !.data = Memcpy(cte_decoder_load(r.decoder), 0,
                                           Bytes(buf), Len(buf))]
        /\ lastop' = [name |-> "load", size |-> Len(buf)]
    /\ ret' = [void |-> TRUE]
    /\ UNCHANGED <<enc, fields, nwrites, decoded, handler_calls, passes>>

PeekType ==
    /\ aborted = ""
    /\ dec # NoHandle
    /\ LET r == cte_decoder_peek_type(dec) IN
       /\ dec' = r.decoder
       /\ aborted' = r.abort
       /\ ret' = [type |-> r.type]
    /\ lastop' = [name |-> "cte_decoder_peek_type"]
    /\ UNCHANGED <<enc, fields, nwrites, decoded, handler_calls, passes>>

\* The types the pull loops' switches have a reader for in decoder.c
\* (test.c:236-361, ctetool.c:361-440).
HasReader(type) ==
    \/ IsPkVectorType(type)
    \/ IsSigVectorType(type)
    \/ IsFixedType(type)
    \/ type \in {CTE_PEEK_TYPE_IXDATA_VECTOR_INDEX, CTE_PEEK_TYPE_IXDATA_ULEB128,
                 CTE_PEEK_TYPE_IXDATA_SLEB128, CTE_PEEK_TYPE_IXDATA_CONST_FALSE,
                 CTE_PEEK_TYPE_IXDATA_CONST_TRUE, CTE_PEEK_TYPE_VECTOR_SHORT,
                 CTE_PEEK_TYPE_VECTOR_EXTENDED}

\* The pull loop's step after a peek: the typed read its switch selects.
ReadPeeked ==
    /\ aborted = ""
    /\ dec # NoHandle
    /\ lastop.name = "cte_decoder_peek_type"
    /\ HasReader(ret.type)
    /\ LET r == DispatchRead(dec, ret.type, "") IN
       /\ dec' = r.decoder
       /\ aborted' = r.abort
       /\ decoded' = IF r.abort = "" THEN Append(decoded, r.field) ELSE decoded
       /\ ret' = IF r.abort = "" THEN r.field ELSE [void |-> TRUE]
    /\ lastop' = [name |-> "read", type |-> ret.type]
    /\ UNCHANGED <<enc, fields, nwrites, handler_calls, passes>>

\* One enumerant for each typed reader of decoder.c: the two vector readers,
\* the index, ULEB128, SLEB128 and ten fixed readers, the boolean reader and
\* the vector-data reader.
ReaderOf(type) ==
    CASE IsPkVectorType(type) -> CTE_PEEK_TYPE_PK_VECTOR_SIZE_0
      [] IsSigVectorType(type) -> CTE_PEEK_TYPE_SIG_VECTOR_SIZE_0
      [] type = CTE_PEEK_TYPE_IXDATA_CONST_TRUE -> CTE_PEEK_TYPE_IXDATA_CONST_FALSE
      [] type = CTE_PEEK_TYPE_VECTOR_EXTENDED -> CTE_PEEK_TYPE_VECTOR_SHORT
      [] OTHER -> type

Readers == {ReaderOf(type) : type \in {t \in 0..CTE_PEEK_TYPE_VECTOR_EXTENDED : HasReader(t)}}

\* What a value returned by a reader is recorded as: the field of the byte at
\* position when that byte belongs to the reader, the reader's own enumerant
\* otherwise.
TypeRead(decoder, reader) ==
    IF decoder.position < decoder.size
    THEN LET type == cte_decoder_peek_type_switch(decoder.data[decoder.position])
         IN  IF HasReader(type) /\ ReaderOf(type) = reader THEN type ELSE reader
    ELSE reader

\* A typed read the caller makes on its own, whatever the last peek said and
\* also before any peek (the readers take the decoder alone and look at the
\* byte at position).  It is tried on the hand-made transactions, which hold
\* every header byte.  A value read from byte 0 is returned to the caller but
\* is no field of the transaction.
ReadTyped ==
    /\ aborted = ""
    /\ dec # NoHandle
    /\ enc = NoHandle
    /\ \E reader \in Readers :
        LET r == DispatchRead(dec, TypeRead(dec, reader), "") IN
        /\ dec' = r.decoder
        /\ aborted' = r.abort
        /\ decoded' = IF r.abort = "" /\ dec.position >= 1
                      THEN Append(decoded, r.field) ELSE decoded
        /\ ret' = IF r.abort = "" THEN r.field ELSE [void |-> TRUE]
        /\ lastop' = [name |-> "typed_read", reader |-> reader]
    /\ UNCHANGED <<enc, fields, nwrites, handler_calls, passes>>

\* A new pass over the loaded buffer; what the pass so far delivered is kept
\* for comparison.
DecoderReset ==
    /\ aborted = ""
    /\ dec # NoHandle
    /\ lastop.name # "run_loop"
    /\ Len(passes) < MaxResets
    /\ LET r == cte_decoder_reset(dec) IN
       /\ dec' = r.decoder
       /\ aborted' = r.abort
    /\ passes' = Append(passes, decoded \o handler_calls)
    /\ decoded' = <<>>
    /\ handler_calls' = <<>>
    /\ lastop' = [name |-> "cte_decoder_reset"]
    /\ ret' = [void |-> TRUE]
    /\ UNCHANGED <<enc, fields, nwrites>>

\* The streaming driver at the start of a pass.
Run ==
    /\ aborted = ""
    /\ dec # NoHandle
    /\ lastop.name \in {"load", "cte_decoder_reset"}
    /\ LET r == cte_decoder_run(dec) IN
       /\ dec' = r.decoder
       /\ aborted' = r.abort
       /\ handler_calls' = r.calls
       /\ ret' = [code |-> r.ret]
    /\ lastop' = [name |-> "cte_decoder_run"]
    /\ UNCHANGED <<enc, fields, nwrites, decoded, passes>>

Next ==
    \/ EncoderInit
    \/ EncoderReset
    \/ WriteIndex
    \/ WriteUleb128
    \/ WriteSleb128
    \/ WriteFixed
    \/ WriteBoolean
    \/ BeginVectorData
    \/ AddVectorData
    \/ AddPublicKeyVector
    \/ AddSignatureVector
    \/ LoadEncoded
    \/ LoadCrafted
    \/ PeekType
    \/ ReadPeeked
    \/ ReadTyped
    \/ DecoderReset
    \/ Run

Spec == Init /\ [][Next]_vars

(***************************************************************************)
(* The streaming driver, one loop iteration at a time.                     *)
(***************************************************************************)
\* The call up to the while loop: the first peek, which checks the version
\* byte and returns 0 at once on an empty transaction.
RunEnter ==
    /\ aborted = ""
    /\ dec # NoHandle
    /\ lastop.name \in {"load", "cte_decoder_reset"}
    /\ LET first == cte_decoder_peek_type(dec) IN
       /\ dec' = first.decoder
       /\ aborted' = first.abort
       /\ lastop' = IF first.abort = "" /\ first.type # CTE_PEEK_EOF
                    THEN [name |-> "run_loop"]
                    ELSE [name |-> "cte_decoder_run"]
       /\ ret' = IF first.abort # "" THEN [code |-> -1]
                 ELSE IF first.type = CTE_PEEK_EOF THEN [code |-> 0]
                 ELSE [void |-> TRUE]
    /\ UNCHANGED <<enc, fields, nwrites, decoded, handler_calls, passes>>

\* One test of the while condition and, unless it ends the loop, one pass of
\* the body: the read for the peeked type and the handler call.  ended tells
\* whether the call is over, by return or by abort.
cte_decoder_run_iteration(decoder, calls) ==
    LET p == cte_decoder_peek_type(decoder) IN
    IF p.abort # ""
    THEN [decoder |-> p.decoder, ended |-> TRUE, ret |-> -1, calls |-> calls,
          abort |-> p.abort]
    ELSE IF p.type = CTE_PEEK_EOF
    THEN [decoder |-> p.decoder, ended |-> TRUE, ret |-> 0, calls |-> calls,
          abort |-> ""]
    ELSE LET r == DispatchRead(p.decoder, p.type,
                               "Unknown or unhandled peek type in run loop")
         IN  IF r.abort # ""
             THEN [decoder |-> r.decoder, ended |-> TRUE, ret |-> -1,
                   calls |-> calls, abort |-> r.abort]
             ELSE [decoder |-> r.decoder, ended |-> FALSE, ret |-> 0,
                   calls |-> Append(calls, r.field), abort |-> ""]

RunIterate ==
    /\ aborted = ""
    /\ lastop.name = "run_loop"
    /\ \E r \in {cte_decoder_run_iteration(dec, handler_calls)} :
        /\ dec' = r.decoder
        /\ aborted' = r.abort
        /\ handler_calls' = r.calls
        /\ lastop' = IF r.ended THEN [name |-> "cte_decoder_run"] ELSE lastop
        /\ ret' = IF r.ended THEN [code |-> r.ret] ELSE ret
    /\ UNCHANGED <<enc, fields, nwrites, decoded, passes>>

RunNext ==
    \/ EncoderInit
    \/ WriteIndex
    \/ WriteUleb128
    \/ WriteSleb128
    \/ WriteFixed
    \/ WriteBoolean
    \/ BeginVectorData
    \/ AddVectorData
    \/ AddPublicKeyVector
    \/ AddSignatureVector
    \/ LoadEncoded
    \/ LoadCrafted
    \/ DecoderReset
    \/ RunEnter
    \/ RunIterate

\* cte_decoder_run is one call of one thread: once entered, its loop is run
\* until it returns or aborts.  This is weak fairness of RunIterate, written
\* with the action's guard for its enabledness: while the driver is inside
\* the loop, the next iteration is eventually taken.
RunFairness == []<>(~(aborted = "" /\ lastop.name = "run_loop")) \/ []<><<RunIterate>>_vars

RunSpec == Init /\ [][RunNext]_vars /\ RunFairness

(***************************************************************************)
(* What the format prescribes for a written field, stated from the wire    *)
(* format and not from the encoder: sizes, peek enumerants, read results.  *)
(***************************************************************************)
\* The length of the canonical ULEB128 of value: one byte per 7 bits up to the
\* highest set bit, one byte for 0.
UlebLen(value) ==
    IF \A b \in Bits64 : value[b] = 0 THEN 1
    ELSE LET top == CHOOSE t \in Bits64 :
                        value[t] = 1 /\ \A b \in Bits64 : b > t => value[b] = 0
         IN  (top \div 7) + 1

\* The length of the canonical SLEB128 of value: the least n such that the
\* 7n-bit two's complement holds it (bit 7n-1 and all above are the sign).
SlebLen(value) ==
    CHOOSE n \in 1..10 :
        /\ \A b \in Bits64 : b >= 7 * n - 1 => value[b] = value[63]
        /\ \A m \in 1..(n - 1) : \E b \in Bits64 : b >= 7 * m - 1 /\ value[b] # value[63]

\* The two ways of writing a vector-data field.
VectorDataWrites == {"cte_encoder_begin_vector_data", "cte_encoder_add_vector_data"}

PkItemSize(size_code) == <<32, 32, 48, 64>>[size_code + 1]
SigItemSize(size_code) == <<64, 32, 32, 32>>[size_code + 1]

\* Whether a call's arguments are in the domain the format gives the field.
ValidCall(call) ==
    CASE call.name = "cte_encoder_write_ixdata_vector_index" -> call.index <= 15
      [] call.name \in {"cte_encoder_add_public_key_vector",
                        "cte_encoder_add_signature_vector"} ->
            call.count \in 1..15 /\ call.size_code \in 0..3
      [] call.name \in VectorDataWrites -> call.length <= 1197
      [] OTHER -> TRUE

\* The bytes the field of a valid call occupies on the wire.
PredictedSize(call) ==
    CASE call.name = "cte_encoder_write_ixdata_vector_index" -> 1
      [] call.name = "cte_encoder_write_ixdata_boolean" -> 1
      [] call.name = "cte_encoder_write_ixdata_fixed" -> 1 + FixedSizeof(call.type_code)
      [] call.name = "cte_encoder_write_ixdata_uleb128" -> 1 + UlebLen(call.value)
      [] call.name = "cte_encoder_write_ixdata_sleb128" -> 1 + SlebLen(call.value)
      [] call.name = "cte_encoder_add_public_key_vector" ->
            1 + call.count * PkItemSize(call.size_code)
      [] call.name = "cte_encoder_add_signature_vector" ->
            1 + call.count * SigItemSize(call.size_code)
      [] call.name \in VectorDataWrites ->
            (IF call.length <= 31 THEN 1 ELSE 2) + call.length

RECURSIVE SumPredicted(_)
SumPredicted(calls) ==
    IF calls = <<>> THEN 0
    ELSE PredictedSize(Head(calls)) + SumPredicted(Tail(calls))

\* The enumerant peek_type is to report for the field of a call.
ExpectedType(call) ==
    CASE call.name = "cte_encoder_write_ixdata_vector_index" ->
            CTE_PEEK_TYPE_IXDATA_VECTOR_INDEX
      [] call.name = "cte_encoder_write_ixdata_boolean" ->
            IF call.bool THEN CTE_PEEK_TYPE_IXDATA_CONST_TRUE
                         ELSE CTE_PEEK_TYPE_IXDATA_CONST_FALSE
      [] call.name = "cte_encoder_write_ixdata_fixed" ->
            CTE_PEEK_TYPE_IXDATA_INT8 + call.type_code
      [] call.name = "cte_encoder_write_ixdata_uleb128" -> CTE_PEEK_TYPE_IXDATA_ULEB128
      [] call.name = "cte_encoder_write_ixdata_sleb128" -> CTE_PEEK_TYPE_IXDATA_SLEB128
      [] call.name = "cte_encoder_add_public_key_vector" ->
            CTE_PEEK_TYPE_PK_VECTOR_SIZE_0 + call.size_code
      [] call.name = "cte_encoder_add_signature_vector" ->
            CTE_PEEK_TYPE_SIG_VECTOR_SIZE_0 + call.size_code
      [] call.name \in VectorDataWrites ->
            IF call.length <= 31 THEN CTE_PEEK_TYPE_VECTOR_SHORT
                                 ELSE CTE_PEEK_TYPE_VECTOR_EXTENDED

\* The n bytes at data + ptr are the first n bytes of payload.
SamePayload(data, ptr, n, payload) ==
    \A i \in 0..(n - 1) : (ptr + i) \in DOMAIN data /\ data[ptr + i] = payload[i]

\* field, read out of data, is the field the call wrote.
SameField(call, field, data) ==
    /\ field.type = ExpectedType(call)
    /\ CASE call.name = "cte_encoder_write_ixdata_vector_index" ->
                field.index = call.index
         [] call.name = "cte_encoder_write_ixdata_boolean" -> field.bool = call.bool
         [] call.name = "cte_encoder_write_ixdata_fixed" -> field.bytes = call.bytes
         [] call.name \in {"cte_encoder_write_ixdata_uleb128",
                           "cte_encoder_write_ixdata_sleb128"} ->
                field.value = call.value
         [] call.name \in {"cte_encoder_add_public_key_vector",
                           "cte_encoder_add_signature_vector"}
                          \cup VectorDataWrites ->
                /\ field.size = PredictedSize(call)
                                - (IF field.type = CTE_PEEK_TYPE_VECTOR_EXTENDED
                                   THEN 2 ELSE 1)
                /\ SamePayload(data, field.ptr, field.size,
                               Fill(call.seed, call.step, field.size))

WriteNames ==
    {"cte_encoder_write_ixdata_vector_index", "cte_encoder_write_ixdata_boolean",
     "cte_encoder_write_ixdata_fixed", "cte_encoder_write_ixdata_uleb128",
     "cte_encoder_write_ixdata_sleb128", "cte_encoder_add_public_key_vector",
     "cte_encoder_add_signature_vector"} \cup VectorDataWrites

\* The fields the decoder has handed over: by typed reads, or to the handler.
Delivered == decoded \o handler_calls

\* The decoder holds the bytes of the encoder (test.c:214-223).
DecodingEncoded == enc # NoHandle /\ dec # NoHandle

(***************************************************************************)
(* Round trip.                                                             *)
(***************************************************************************)
\* Decoding what the encoder produced never aborts, reports for each field
\* the enumerant of the call that wrote it, hands back the call's value or
\* payload, and reaches EOF at position = size with every field delivered.
RoundTripOfAcceptedWrites ==
    DecodingEncoded =>
        /\ aborted = ""
        /\ Len(Delivered) <= Len(fields)
        /\ \A i \in 1..Len(Delivered) : SameField(fields[i], Delivered[i], dec.data)
        /\ (lastop.name = "cte_decoder_peek_type" /\ ret.type # CTE_PEEK_EOF) =>
                /\ Len(Delivered) < Len(fields)
                /\ ret.type = ExpectedType(fields[Len(Delivered) + 1])
        /\ (lastop.name = "cte_decoder_peek_type" /\ ret.type = CTE_PEEK_EOF) =>
                /\ Len(Delivered) = Len(fields)
                /\ dec.position = dec.size
        /\ lastop.name = "cte_decoder_run" =>
                /\ ret.code = 0
                /\ Len(handler_calls) = Len(fields)
                /\ dec.position = dec.size

\* A valid write is refused for capacity only when its field does not fit.
FittingWritesAccepted ==
    (/\ aborted = "Write past end of buffer capacity"
     /\ lastop.name \in WriteNames
     /\ ValidCall(lastop))
        => enc.position + PredictedSize(lastop) > enc.capacity

\* C1: every sequence of valid field writes that fits the encoder's capacity
\* is encoded, and decoding the encoder's bytes [0, get_size) with peek_type
\* and the matching typed read until EOF yields the same enumerants, values
\* and payloads, ending at position = size with no abort.
RoundTrip == FittingWritesAccepted /\ RoundTripOfAcceptedWrites

(***************************************************************************)
(* Sizes.                                                                  *)
(***************************************************************************)
\* C2: after any sequence of successful writes on a fresh encoder, get_size
\* is the version byte plus the sum of the predicted sizes of the fields:
\* 1 for an index or a boolean, 1 + width for a fixed scalar, 1 + LEB128
\* length for a varint, 1 + N * itemSize(S) for a key or signature vector,
\* (1 if l <= 31 else 2) + l for vector data of length l.
LengthDeterminism ==
    (enc # NoHandle /\ aborted = "")
        => cte_encoder_get_size(enc) = 1 + SumPredicted(fields)

\* Two writes have returned: a 10-byte SLEB128 and an extended vector.
LengthDeterminismWitness ==
    /\ enc # NoHandle
    /\ aborted = ""
    /\ Len(fields) = 2
    /\ fields[1] = [name |-> "cte_encoder_write_ixdata_sleb128", value |-> INT64_MIN]
    /\ fields[2].name = "cte_encoder_begin_vector_data"
    /\ fields[2].length = 1197
    /\ cte_encoder_get_size(enc) = 1 + 11 + 1199

(***************************************************************************)
(* The empty transaction.                                                  *)
(***************************************************************************)
\* The buffer bytes [0, get_size) of an encoder, as a sequence.
EncodedBytes(handle) ==
    [i \in 1..cte_encoder_get_size(handle) |-> cte_encoder_get_data(handle)[i - 1]]

\* The decoder holds exactly the one-byte transaction [0xF1].
HoldsEmptyTransaction(decoder) ==
    /\ decoder # NoHandle
    /\ decoder.size = 1
    /\ decoder.data = Bytes(<<CTE_VERSION_BYTE>>)

\* C3: an encoder initialised with a capacity >= 1 and given no writes holds
\* exactly [0xF1] with get_size = 1, and init with capacity 0 is rejected; a
\* decoder loaded with that buffer returns EOF on every peek_type, the first
\* included, and cte_decoder_run on it returns 0 without calling the handler.
EmptyTransaction ==
    /\ lastop.name = "cte_encoder_init" =>
          IF lastop.capacity >= 1
          THEN /\ aborted = ""
               /\ enc # NoHandle
               /\ cte_encoder_get_size(enc) = 1
               /\ EncodedBytes(enc) = <<CTE_VERSION_BYTE>>
          ELSE /\ aborted = "Capacity must be at least 1 for the version byte"
               /\ enc = NoHandle
    /\ (enc # NoHandle /\ aborted = "" /\ fields = <<>>) =>
          /\ cte_encoder_get_size(enc) = 1
          /\ EncodedBytes(enc) = <<CTE_VERSION_BYTE>>
    /\ (HoldsEmptyTransaction(dec) /\ lastop.name = "cte_decoder_peek_type") =>
          /\ aborted = ""
          /\ ret.type = CTE_PEEK_EOF
    /\ (HoldsEmptyTransaction(dec) /\ lastop.name = "cte_decoder_run") =>
          /\ aborted = ""
          /\ ret.code = 0
          /\ handler_calls = <<>>

\* The driver has run over the bytes of an encoder that was given no writes.
EmptyTransactionWitness ==
    /\ enc # NoHandle
    /\ fields = <<>>
    /\ HoldsEmptyTransaction(dec)
    /\ lastop.name = "cte_decoder_run"
    /\ ret.code = 0

(***************************************************************************)
(* Byte-exact scenarios.                                                   *)
(***************************************************************************)
\* The decoder holds exactly the transaction bytes.
HoldsBytes(decoder, bytes) ==
    /\ decoder # NoHandle
    /\ decoder.size = Len(bytes)
    /\ decoder.data = Bytes(bytes)

\* What a pull loop sees over a transaction of the single field f of
\* enumerant type: peek reports type until the field is read, EOF after;
\* the read and the driver deliver f alone.
DecodesAsSingle(type, f) ==
    /\ aborted = ""
    /\ Delivered \in {<<>>, <<f>>}
    /\ lastop.name = "cte_decoder_peek_type" =>
          ret.type = (IF Delivered = <<>> THEN type ELSE CTE_PEEK_EOF)
    /\ lastop.name = "read" => decoded = <<f>>
    /\ lastop.name = "cte_decoder_run" => (ret.code = 0 /\ handler_calls = <<f>>)

WriteUleb123456 ==
    [name |-> "cte_encoder_write_ixdata_uleb128", value |-> u64(123456)]

ReadUleb123456 ==
    [type |-> CTE_PEEK_TYPE_IXDATA_ULEB128, value |-> u64(123456), size |-> 8]

WriteSlebMinus78910 ==
    [name |-> "cte_encoder_write_ixdata_sleb128", value |-> i64(-78910)]

ReadSlebMinus78910 ==
    [type |-> CTE_PEEK_TYPE_IXDATA_SLEB128, value |-> i64(-78910), size |-> 8]

AppendsOneByte(byte) ==
    /\ enc'.position = enc.position + 1
    /\ enc'.buffer = Store(enc.buffer, enc.position, byte)
    /\ enc'.capacity = enc.capacity

\* C6, as amended: write_ixdata_boolean(true) appends the single byte 0x87,
\* write_ixdata_boolean(false) the single byte 0x83, write_ixdata_index(i)
\* for i <= 15 the single byte 0x80 | (i << 2), which is 0x94 for index 5;
\* each advances position by exactly 1, and an index greater than 15 is
\* refused.
OneByteHeaders ==
    [][/\ (lastop'.name = "cte_encoder_write_ixdata_boolean" /\ aborted' = "") =>
             AppendsOneByte(IF lastop'.bool THEN 135 ELSE 131)
       /\ (lastop' = [name |-> "cte_encoder_write_ixdata_vector_index", index |-> 5]
           /\ aborted' = "") =>
             AppendsOneByte(148)
       /\ (lastop'.name = "cte_encoder_write_ixdata_vector_index" /\ aborted' = "") =>
             /\ lastop'.index <= 15
             /\ AppendsOneByte(128 + 4 * lastop'.index)
       /\ (lastop'.name = "cte_encoder_write_ixdata_vector_index"
           /\ lastop'.index > 15) =>
             /\ aborted' = "Vector index value out of range (0-15)"
             /\ enc' = enc]_vars

\* Boolean true, then index 5, have been appended to a fresh encoder.
OneByteHeadersWitness ==
    /\ aborted = ""
    /\ enc # NoHandle
    /\ fields = <<[name |-> "cte_encoder_write_ixdata_boolean", bool |-> TRUE],
                  [name |-> "cte_encoder_write_ixdata_vector_index", index |-> 5]>>
    /\ EncodedBytes(enc) = <<241, 135, 148>>

\* C6, as written: boolean true appends 0x47, boolean false 0x43, index 5
\* 0x54; each advances position by exactly 1, and an index greater than 15 is
\* refused.
OneByteHeadersAsWritten ==
    [][/\ (lastop'.name = "cte_encoder_write_ixdata_boolean" /\ aborted' = "") =>
             AppendsOneByte(IF lastop'.bool THEN 71 ELSE 67)
       /\ (lastop' = [name |-> "cte_encoder_write_ixdata_vector_index", index |-> 5]
           /\ aborted' = "") =>
             AppendsOneByte(84)
       /\ (lastop'.name = "cte_encoder_write_ixdata_vector_index"
           /\ lastop'.index > 15) =>
             /\ aborted' # ""
             /\ enc' = enc]_vars

(***************************************************************************)
(* Vector data and key / signature vectors.                                *)
(***************************************************************************)
\* The step left the encoder's bytes below its old position alone.
PrefixKept ==
    \A k \in 0..(enc.position - 1) : enc'.buffer[k] = enc.buffer[k]

\* C7: begin_vector_data(l) selects the format from l alone: for l <= 31 it
\* writes the one-byte header 0xC0 | l (0xCD for 13); for 32 <= l <= 1197 the
\* two-byte header 0xE0 | ((l >> 8) << 2), l & 0xFF (0xE0, 0x96 for 150); in
\* both cases it reserves l payload bytes after the header and returns the
\* payload start; for l > 1197 it fails without changing position.
VectorDataFormat ==
    [][lastop'.name = "cte_encoder_begin_vector_data" =>
          LET l == lastop'.length
              p == enc.position
              header_size == IF l <= 31 THEN 1 ELSE 2
          IN  /\ (aborted' = "Vector data length out of range (0-1197)") <=> (l > 1197)
              /\ l > 1197 => enc' = enc
              /\ (l <= 1197 /\ aborted' # "") =>
                    /\ aborted' = "Write past end of buffer capacity"
                    /\ p + header_size + l > enc.capacity
                    /\ enc' = enc
              /\ aborted' = "" =>
                    /\ IF l <= 31
                       THEN enc'.buffer[p] = 192 + l
                       ELSE /\ enc'.buffer[p] = 224 + 4 * (l \div 256)
                            /\ enc'.buffer[p + 1] = l % 256
                    /\ l = 13 => enc'.buffer[p] = 205
                    /\ l = 150 => (enc'.buffer[p] = 224 /\ enc'.buffer[p + 1] = 150)
                    /\ ret'.ptr = p + header_size
                    /\ enc'.position = ret'.ptr + l
                    /\ enc'.position <= enc'.capacity
                    /\ enc'.capacity = enc.capacity
                    /\ PrefixKept]_vars

\* A 1197-byte payload, whose length has high bits, has been reserved after
\* a 13-byte one.
VectorDataFormatWitness ==
    /\ aborted = ""
    /\ lastop.name = "cte_encoder_begin_vector_data"
    /\ Len(fields) = 2
    /\ fields[1].name = "cte_encoder_begin_vector_data"
    /\ fields[1].length = 13
    /\ fields[2].length = 1197
    /\ enc.buffer[1] = 205
    /\ enc.buffer[15] = 240
    /\ enc.buffer[16] = 173
    /\ ret.ptr = 17
    /\ enc.position = 1214

\* C8: a key (signature) vector write with count N in 1..15 and a supported
\* size code S appends the header tag | (N << 2) | S (0x08 for a key vector
\* with N = 2, S = 0), then exactly N * itemSize(S) payload bytes, and
\* advances position by 1 + N * itemSize(S); N = 0 or N > 15 fails with the
\* invalid-count error, a reservation beyond the capacity with the capacity
\* error.  A key vector (N = 2, S = 0) followed by index 1 is 67 bytes.
VectorWrites ==
    [][/\ lastop'.name \in {"cte_encoder_add_public_key_vector",
                            "cte_encoder_add_signature_vector"} =>
             LET pk == lastop'.name = "cte_encoder_add_public_key_vector"
                 N == lastop'.count
                 S == lastop'.size_code
                 p == enc.position
                 item == IF pk THEN PkItemSize(S) ELSE SigItemSize(S)
                 tag == IF pk THEN 0 ELSE 64
             IN  /\ (N = 0 \/ N > 15) =>
                       /\ aborted' = (IF pk THEN "Invalid key count"
                                            ELSE "Invalid sig count")
                       /\ enc' = enc
                 /\ (N \in 1..15 /\ S \notin 0..3) =>
                       /\ aborted' = (IF pk THEN "Invalid public key type code"
                                            ELSE "Invalid signature type code")
                       /\ enc' = enc
                 /\ (N \in 1..15 /\ S \in 0..3 /\ p + 1 + N * item > enc.capacity) =>
                       /\ aborted' = "Capacity error"
                       /\ enc' = enc
                 /\ (N \in 1..15 /\ S \in 0..3 /\ p + 1 + N * item <= enc.capacity) =>
                       /\ aborted' = ""
                       /\ ret'.code = 0
                       /\ enc'.buffer[p] = tag + 4 * N + S
                       /\ (pk /\ N = 2 /\ S = 0) => enc'.buffer[p] = 8
                       /\ SamePayload(enc'.buffer, p + 1, N * item,
                                      Fill(lastop'.seed, lastop'.step, N * item))
                       /\ enc'.position = p + 1 + N * item
                       /\ DOMAIN enc'.buffer = DOMAIN enc.buffer \cup (p..(p + N * item))
                       /\ enc'.capacity = enc.capacity
                       /\ PrefixKept
       /\ (/\ aborted' = ""
           /\ Len(fields') = 2
           /\ fields'[1].name = "cte_encoder_add_public_key_vector"
           /\ fields'[1].count = 2
           /\ fields'[1].size_code = 0
           /\ fields'[2] = [name |-> "cte_encoder_write_ixdata_vector_index",
                            index |-> 1]) =>
             cte_encoder_get_size(enc') = 67]_vars

\* Two Ed25519 keys and index 1 fill an encoder of capacity 67 exactly.
VectorWritesWitness ==
    /\ aborted = ""
    /\ enc # NoHandle
    /\ enc.capacity = 67
    /\ Len(fields) = 2
    /\ fields[1].name = "cte_encoder_add_public_key_vector"
    /\ fields[1].count = 2
    /\ fields[1].size_code = 0
    /\ fields[2] = [name |-> "cte_encoder_write_ixdata_vector_index", index |-> 1]
    /\ cte_encoder_get_size(enc) = 67
    /\ EncodedBytes(enc)[2] = 8
    /\ EncodedBytes(enc)[67] = 132

(***************************************************************************)
(* peek_type.                                                              *)
(***************************************************************************)
\* C9: peek_type is idempotent: except for the first call on a decoder at
\* position 0, which checks data[0] = 0xF1 and moves position to 1, a call
\* leaves position, size, buffer contents and the last_* metadata unchanged,
\* and consecutive calls return the same enumerant.
PeekIdempotent ==
    [][lastop'.name = "cte_decoder_peek_type" =>
          /\ dec.position # 0 => (dec' = dec /\ aborted' = "")
          /\ dec.position = 0 =>
                IF dec.data[0] = CTE_VERSION_BYTE
                THEN dec' = [dec EXCEPT !.position = 1] /\ aborted' = ""
                ELSE dec' = dec /\ aborted' = "Invalid version byte"
          /\ lastop.name = "cte_decoder_peek_type" => ret' = ret]_vars

\* A peek in the middle of a transaction: a field has been read, another
\* follows, and the peek has reported it with the cursor still on its header.
PeekIdempotentWitness ==
    /\ aborted = ""
    /\ lastop.name = "cte_decoder_peek_type"
    /\ Len(decoded) = 1
    /\ dec.position > 1
    /\ dec.position < dec.size
    /\ dec.last_vector_count = 15
    /\ ret.type = CTE_PEEK_TYPE_VECTOR_EXTENDED

\* The enumerant the format gives the header byte H, -1 where the format
\* reserves the code.
Classify(H) ==
    LET tag == H \div 64
        SS == H % 4
        DDDD == (H \div 4) % 16
    IN  CASE tag = 0 -> CTE_PEEK_TYPE_PK_VECTOR_SIZE_0 + (H % 4)
          [] tag = 1 -> CTE_PEEK_TYPE_SIG_VECTOR_SIZE_0 + (H % 4)
          [] tag = 2 /\ SS = 0 -> CTE_PEEK_TYPE_IXDATA_VECTOR_INDEX
          [] tag = 2 /\ SS = 1 /\ DDDD <= 2 -> CTE_PEEK_TYPE_IXDATA_VARINT_ZERO + DDDD
          [] tag = 2 /\ SS = 2 /\ DDDD <= 9 -> CTE_PEEK_TYPE_IXDATA_INT8 + DDDD
          [] tag = 2 /\ SS = 3 /\ DDDD <= 1 -> CTE_PEEK_TYPE_IXDATA_CONST_FALSE + DDDD
          [] tag = 3 -> IF (H \div 32) % 2 = 1 THEN CTE_PEEK_TYPE_VECTOR_EXTENDED
                                               ELSE CTE_PEEK_TYPE_VECTOR_SHORT
          [] OTHER -> -1

\* C10: peek_type classifies the header byte H at the current position: EOF
\* exactly when position = size; tag 00 -> PK_VECTOR_0 + (H & 3), tag 01 ->
\* SIG_VECTOR_0 + (H & 3), whatever N is; tag 10 with SS = 00 -> index, SS =
\* 01 with DDDD 0, 1, 2 -> VARINT_ZERO, ULEB128, SLEB128, SS = 10 with DDDD
\* 0..9 -> the ten fixed types, SS = 11 with DDDD 0, 1 -> CONST_FALSE,
\* CONST_TRUE; tag 11 -> VECTOR_EXTENDED if bit 5 is set, else VECTOR_SHORT.
PeekClassification ==
    (lastop.name = "cte_decoder_peek_type" /\ aborted = "") =>
        /\ (ret.type = CTE_PEEK_EOF) <=> (dec.position = dec.size)
        /\ (dec.position < dec.size /\ Classify(dec.data[dec.position]) # -1) =>
              ret.type = Classify(dec.data[dec.position])

\* The same for every header byte but the one of a zero varint.
PeekClassificationButVarintZero ==
    (lastop.name = "cte_decoder_peek_type" /\ aborted = "") =>
        /\ (ret.type = CTE_PEEK_EOF) <=> (dec.position = dec.size)
        /\ (/\ dec.position < dec.size
            /\ Classify(dec.data[dec.position]) # -1
            /\ dec.data[dec.position] # 129) =>
              ret.type = Classify(dec.data[dec.position])

(***************************************************************************)
(* Rejection of malformed input.                                           *)
(***************************************************************************)
\* H is an IxData header with a reserved detail code: SS = 01 with DDDD in
\* 3..15, SS = 10 with DDDD in 10..15, SS = 11 with DDDD in 2..15.
ReservedDetailCode(H) ==
    LET SS == H % 4
        DDDD == (H \div 4) % 16
    IN  /\ H \div 64 = 2
        /\ \/ SS = 1 /\ DDDD >= 3
           \/ SS = 2 /\ DDDD >= 10
           \/ SS = 3 /\ DDDD >= 2

\* C11: peek_type aborts, returning no value, when the header at the current
\* position is an IxData header with a reserved detail code.
PeekAbortsOnReservedDetailCode ==
    (/\ lastop.name = "cte_decoder_peek_type"
     /\ dec.position < dec.size
     /\ ReservedDetailCode(dec.data[dec.position])) =>
        aborted # ""

\* What the code does on such a header: peek_type returns -1, and it is
\* cte_decoder_run that aborts, in the default case of its switch.
ReservedDetailCodePeeksMinusOne ==
    /\ (/\ lastop.name = "cte_decoder_peek_type"
        /\ dec.position < dec.size
        /\ ReservedDetailCode(dec.data[dec.position])) =>
           (aborted = "" /\ ret.type = -1)
    /\ (/\ lastop.name = "cte_decoder_run"
        /\ dec.position < dec.size
        /\ ReservedDetailCode(dec.data[dec.position])) =>
           aborted = "Unknown or unhandled peek type in run loop"

\* The enumerants peek_type has for fields.
FieldEnumerants == {Classify(H) : H \in 0..255} \ {-1}

ReadUlebZero ==
    [type |-> CTE_PEEK_TYPE_IXDATA_ULEB128, value |-> Zero64, size |-> 8]

\* C12: the decoder accepts both encodings of zero, the one-byte VARINT_ZERO
\* field [0x81] and the ULEB128 field [0x85, 0x00]: peek_type returns a field
\* enumerant, the pull loop and cte_decoder_run consume the field without
\* abort, and the value delivered is 0.
BothZeroEncodingsAccepted ==
    /\ HoldsBytes(dec, <<241, 133, 0>>) =>
          DecodesAsSingle(CTE_PEEK_TYPE_IXDATA_ULEB128, ReadUlebZero)
    /\ HoldsBytes(dec, <<241, 129>>) =>
          /\ aborted = ""
          /\ (lastop.name = "cte_decoder_peek_type" /\ dec.position < dec.size) =>
                ret.type \in FieldEnumerants
          /\ lastop.name = "cte_decoder_run" =>
                /\ ret.code = 0
                /\ Len(handler_calls) = 1
                /\ handler_calls[1].value = Zero64

\* The ULEB128 half of C12 alone, which the code satisfies.
UlebZeroAccepted ==
    HoldsBytes(dec, <<241, 133, 0>>) =>
        DecodesAsSingle(CTE_PEEK_TYPE_IXDATA_ULEB128, ReadUlebZero)

IsVectorDataType(type) ==
    type \in {CTE_PEEK_TYPE_VECTOR_SHORT, CTE_PEEK_TYPE_VECTOR_EXTENDED}

\* C13: reading a vector-data field in extended format whose first header
\* byte has a non-zero value in bits 1..0 is rejected: the read aborts and no
\* payload is returned.  (The header of a delivered extended field lies two
\* bytes before its payload.)
PaddingBitsRejected ==
    \A i \in 1..Len(Delivered) :
        Delivered[i].type = CTE_PEEK_TYPE_VECTOR_EXTENDED =>
            dec.data[Delivered[i].ptr - 2] % 4 = 0

\* What the code does with such a field: bits 1..0 are ignored, the 32-byte
\* payload is delivered by the pull loop and by the driver.
PaddingBitsIgnored ==
    \A pp \in 1..3 :
        HoldsBytes(dec, <<CTE_VERSION_BYTE, 224 + pp, 32>> \o Rep(7, 32)) =>
            DecodesAsSingle(CTE_PEEK_TYPE_VECTOR_EXTENDED,
                            [type |-> CTE_PEEK_TYPE_VECTOR_EXTENDED,
                             ptr |-> 3, size |-> 32])

\* The length an extended header at the decoder's position declares.
ExtendedLength(decoder) ==
    ((decoder.data[decoder.position] \div 4) % 8) * 256
        + decoder.data[decoder.position + 1]

IsVectorDataField(f) == IsVectorDataType(f.type)

\* The payload length of the last vector-data field among calls, or before.
LastVectorDataLen(calls, before) ==
    LET vd == SelectSeq(calls, IsVectorDataField)
    IN  IF vd = <<>> THEN before ELSE vd[Len(vd)].size

\* C14: reading an extended vector-data header whose decoded length
\* (HHH << 8) | byte2 is outside 32..1197 aborts with "Invalid extended
\* vector data length" and leaves position and last_vector_data_len as they
\* were (in cte_decoder_run: as the fields before it left them); an extended
\* read that succeeds yields the declared length, within 32..1197, and the
\* short format only yields lengths 0..31.
VectorDataLengths ==
    [][/\ (lastop'.name = "read" /\ IsVectorDataType(lastop'.type)) =>
             IF dec.data[dec.position] >= 224
             THEN IF dec.position + 2 <= dec.size
                     /\ ExtendedLength(dec) \notin 32..1197
                  THEN /\ aborted' = "Invalid extended vector data length"
                       /\ dec' = dec
                       /\ decoded' = decoded
                  ELSE aborted' = "" =>
                          /\ dec'.last_vector_data_len = ExtendedLength(dec)
                          /\ ret'.size = ExtendedLength(dec)
                          /\ ret'.size \in 32..1197
             ELSE /\ aborted' = ""  =>
                          /\ dec'.last_vector_data_len = dec.data[dec.position] % 32
                          /\ ret'.size = dec.data[dec.position] % 32
                  /\ aborted' # "Invalid extended vector data length"
       /\ lastop'.name = "cte_decoder_run" =>
             /\ aborted' = "Invalid extended vector data length" =>
                   /\ dec'.position + 2 <= dec'.size
                   /\ dec'.data[dec'.position] >= 224
                   /\ ExtendedLength(dec') \notin 32..1197
                   /\ dec'.last_vector_data_len =
                          LastVectorDataLen(handler_calls', dec.last_vector_data_len)
             /\ \A i \in 1..Len(handler_calls') :
                   LET f == handler_calls'[i] IN
                   /\ f.type = CTE_PEEK_TYPE_VECTOR_EXTENDED =>
                         /\ f.size \in 32..1197
                         /\ f.size = ((dec'.data[f.ptr - 2] \div 4) % 8) * 256
                                         + dec'.data[f.ptr - 1]
                   /\ f.type = CTE_PEEK_TYPE_VECTOR_SHORT =>
                         f.size = dec'.data[f.ptr - 1] % 32
      ]_vars

\* The pull loop read a 1-byte vector, then met an extended header declaring
\* 1198 bytes: the read aborted at the header, the remembered length still 1.
VectorDataLengthsWitness ==
    /\ HoldsBytes(dec, <<CTE_VERSION_BYTE, 193, 5, 240, 174>>)
    /\ lastop.name = "read"
    /\ aborted = "Invalid extended vector data length"
    /\ dec.position = 3
    /\ dec.last_vector_data_len = 1
    /\ Len(decoded) = 1

IsCountedVectorField(f) == IsPkVectorType(f.type) \/ IsSigVectorType(f.type)

\* The message of the count check in the reader for the peeked vector type.
InvalidCountMessage(type) ==
    IF IsPkVectorType(type)
    THEN "Invalid public key vector length read (N must be 1-15)"
    ELSE "Invalid signature vector length read (N must be 1-15)"

\* C15: reading a public-key or signature vector whose header carries N = 0
\* aborts with the invalid-count message before position or
\* last_vector_count is changed, although peek_type returned a vector
\* enumerant for that header; every vector read that succeeds sets
\* last_vector_count to the header's N, a value in 1..15.
VectorCounts ==
    [][/\ (lastop'.name = "read"
           /\ (IsPkVectorType(lastop'.type) \/ IsSigVectorType(lastop'.type))) =>
             LET N == (dec.data[dec.position] \div 4) % 16 IN
             /\ lastop.name = "cte_decoder_peek_type"
             /\ ret.type = lastop'.type
             /\ IF N = 0
                THEN /\ aborted' = InvalidCountMessage(lastop'.type)
                     /\ dec' = dec
                     /\ decoded' = decoded
                ELSE aborted' = "" =>
                        /\ dec'.last_vector_count = N
                        /\ N \in 1..15
       /\ lastop'.name = "cte_decoder_run" =>
             /\ aborted' \in {InvalidCountMessage(CTE_PEEK_TYPE_PK_VECTOR_SIZE_0),
                              InvalidCountMessage(CTE_PEEK_TYPE_SIG_VECTOR_SIZE_0)} =>
                   /\ dec'.position < dec'.size
                   /\ dec'.data[dec'.position] < 128
                   /\ (dec'.data[dec'.position] \div 4) % 16 = 0
                   /\ aborted' = InvalidCountMessage(
                                     cte_decoder_peek_type_switch(dec'.data[dec'.position]))
                   /\ LET vs == SelectSeq(handler_calls', IsCountedVectorField)
                      IN  dec'.last_vector_count =
                             IF vs = <<>> THEN dec.last_vector_count
                             ELSE (dec'.data[vs[Len(vs)].ptr - 1] \div 4) % 16
             /\ \A i \in 1..Len(handler_calls') :
                   IsCountedVectorField(handler_calls'[i]) =>
                       (dec'.data[handler_calls'[i].ptr - 1] \div 4) % 16 \in 1..15
      ]_vars

\* The pull loop read a one-signature vector, peeked a key vector header with
\* N = 0 as PK_VECTOR_SIZE_0, and the read aborted at that header, the
\* remembered count still 1.
VectorCountsWitness ==
    /\ HoldsBytes(dec, <<CTE_VERSION_BYTE, 69>> \o Rep(3, 32) \o <<0>>)
    /\ lastop = [name |-> "read", type |-> CTE_PEEK_TYPE_PK_VECTOR_SIZE_0]
    /\ aborted = "Invalid public key vector length read (N must be 1-15)"
    /\ dec.position = 34
    /\ dec.last_vector_count = 1
    /\ Len(decoded) = 1

\* C16: the first peek_type call, and therefore cte_decoder_run, on a decoder
\* whose buffer byte 0 is not 0xF1 aborts with "Invalid version byte";
\* position stays 0 and no handler call is made.  (The first such call
\* aborting, none follows it: every such call is a first one.)
VersionCheck ==
    [][(/\ dec # NoHandle
        /\ dec.data[0] # CTE_VERSION_BYTE
        /\ lastop'.name \in {"cte_decoder_peek_type", "cte_decoder_run"}) =>
           /\ aborted' = "Invalid version byte"
           /\ dec'.position = 0
           /\ handler_calls' = <<>>
      ]_vars

\* The same for a decoder whose position is still 0, which the code
\* satisfies: nothing but the abort happens.
VersionCheckAtPositionZero ==
    [][(/\ dec # NoHandle
        /\ dec.position = 0
        /\ dec.data[0] # CTE_VERSION_BYTE
        /\ lastop'.name \in {"cte_decoder_peek_type", "cte_decoder_run"}) =>
           /\ aborted' = "Invalid version byte"
           /\ dec' = dec
           /\ handler_calls' = <<>>
           /\ decoded' = <<>>
      ]_vars

\* C17: a ULEB128 field whose payload is 11 continuation bytes is rejected
\* with the unterminated-sequence error, as distinct from the overflow error.
UnterminatedUleb128 ==
    (/\ HoldsBytes(dec, <<CTE_VERSION_BYTE, 133>> \o Rep(128, 11))
     /\ lastop.name \in {"read", "cte_decoder_run"}) =>
        aborted = "Invalid ULEB128 encoding (unterminated sequence > 10 bytes)"

\* What the code does with 10 and with 11 continuation bytes: the tenth one
\* fails the overflow test, and no input reaches the unterminated-sequence
\* abort.
ContinuationBytesReportedAsOverflow ==
    /\ \A n \in {10, 11} :
          (/\ HoldsBytes(dec, <<CTE_VERSION_BYTE, 133>> \o Rep(128, n))
           /\ lastop.name \in {"read", "cte_decoder_run"}) =>
              /\ aborted = "ULEB128 overflow detected (value > 64 bits)"
              /\ Delivered = <<>>
    /\ aborted # "Invalid ULEB128 encoding (unterminated sequence > 10 bytes)"

\* C18: cte_decoder_init aborts when the requested size is 0 or exceeds
\* CTE_MAX_TRANSACTION_SIZE, so no decoder holds a transaction longer than
\* 1232 bytes.
DecoderSizeBounded ==
    /\ (lastop.name = "load"
        /\ (lastop.size = 0 \/ lastop.size > CTE_MAX_TRANSACTION_SIZE)) =>
           (aborted # "" /\ dec = NoHandle)
    /\ dec # NoHandle => dec.size <= CTE_MAX_TRANSACTION_SIZE

\* The size 0 half of C18 alone, which the code satisfies.
DecoderSizeZeroRejected ==
    (lastop.name = "load" /\ lastop.size = 0) =>
        (aborted = "Zero size buffer" /\ dec = NoHandle)

\* What the code does with 1233 bytes: the decoder is made, and the driver
\* hands the three fields of the buffer to the handler.
OversizeTransactionDecoded ==
    (HoldsBytes(dec, OversizeBuffer) /\ lastop.name = "cte_decoder_run") =>
        /\ aborted = ""
        /\ ret.code = 0
        /\ Len(handler_calls) = 3
        /\ dec.position = CTE_MAX_TRANSACTION_SIZE + 1

(***************************************************************************)
(* Reuse of a codec.                                                       *)
(***************************************************************************)
\* What the recorded write call does to an encoder.
ApplyCall(handle, call) ==
    CASE call.name = "cte_encoder_write_ixdata_vector_index" ->
            cte_encoder_write_ixdata_vector_index(handle, call.index)
      [] call.name = "cte_encoder_write_ixdata_uleb128" ->
            cte_encoder_write_ixdata_uleb128(handle, call.value)
      [] call.name = "cte_encoder_write_ixdata_sleb128" ->
            cte_encoder_write_ixdata_sleb128(handle, call.value)
      [] call.name = "cte_encoder_write_ixdata_fixed" ->
            cte_encoder_write_ixdata_fixed(handle, call.type_code, call.bytes)
      [] call.name = "cte_encoder_write_ixdata_boolean" ->
            cte_encoder_write_ixdata_boolean(handle, call.bool)
      [] call.name = "cte_encoder_begin_vector_data" ->
            LET b == cte_encoder_begin_vector_data(handle, call.length) IN
            IF b.abort # "" THEN [handle |-> b.handle, abort |-> b.abort]
            ELSE [handle |-> [b.handle EXCEPT
                                 !.buffer = Memcpy(@, b.ptr,
                                                   Fill(call.seed, call.step, call.length),
                                                   call.length)],
                  abort |-> ""]
      [] call.name = "cte_encoder_add_vector_data" ->
            LET r == cte_encoder_add_vector_data(
                         handle, call.length, Fill(call.seed, call.step, call.length))
            IN  [handle |-> r.handle, abort |-> r.abort]
      [] call.name = "cte_encoder_add_public_key_vector" ->
            cte_encoder_add_public_key_vector(
                handle, call.count, call.size_code,
                Fill(call.seed, call.step, call.count * 64))
      [] call.name = "cte_encoder_add_signature_vector" ->
            cte_encoder_add_signature_vector(
                handle, call.count, call.size_code,
                Fill(call.seed, call.step, call.count * 64))

RECURSIVE Replay(_, _)
\* A freshly initialised encoder of the capacity, given the accepted calls.
Replay(capacity, calls) ==
    IF calls = <<>>
    THEN cte_encoder_init(capacity).handle
    ELSE ApplyCall(Replay(capacity, SubSeq(calls, 1, Len(calls) - 1)),
                   calls[Len(calls)]).handle

\* C19: cte_encoder_reset, on an encoder in any state, leaves get_size = 1,
\* buffer[0] = 0xF1 and the capacity unchanged; whatever is written then, the
\* encoder holds the bytes a freshly initialised encoder of the same capacity
\* holds after the same writes, and refuses a write exactly as that one does.
EncoderResetAsFresh ==
    [][/\ lastop'.name = "cte_encoder_reset" =>
             /\ aborted' = ""
             /\ cte_encoder_get_size(enc') = 1
             /\ cte_encoder_get_data(enc')[0] = CTE_VERSION_BYTE
             /\ enc'.capacity = enc.capacity
       /\ (enc' # NoHandle /\ lastop'.name \in WriteNames \cup {"cte_encoder_reset"}) =>
             IF aborted' = ""
             THEN LET fresh == Replay(enc'.capacity, fields') IN
                  /\ cte_encoder_get_size(enc') = cte_encoder_get_size(fresh)
                  /\ EncodedBytes(enc') = EncodedBytes(fresh)
             ELSE ApplyCall(Replay(enc.capacity, fields), lastop').abort = aborted'
      ]_vars

\* An encoder that held a 1197-byte vector was reset and given index 5: it
\* holds [0xF1, 0x94] before the stale bytes of the vector, and the driver
\* has delivered the index alone.
EncoderResetAsFreshWitness ==
    /\ nwrites = 2
    /\ fields = <<[name |-> "cte_encoder_write_ixdata_vector_index", index |-> 5]>>
    /\ EncodedBytes(enc) = <<CTE_VERSION_BYTE, 148>>
    /\ 1199 \in DOMAIN enc.buffer
    /\ enc.buffer[2] = 173
    /\ HoldsBytes(dec, <<CTE_VERSION_BYTE, 148>>)
    /\ lastop.name = "cte_decoder_run"
    /\ handler_calls = <<[type |-> CTE_PEEK_TYPE_IXDATA_VECTOR_INDEX, index |-> 5,
                          size |-> 1]>>

\* One sequence of delivered fields begins with the other.
SameSoFar(s, t) ==
    \A i \in 1..(IF Len(s) < Len(t) THEN Len(s) ELSE Len(t)) : s[i] = t[i]

\* C20: cte_decoder_reset sets position to 1 and changes nothing else, the
\* data and the size included; decoding the buffer again after the reset,
\* by typed reads or by cte_decoder_run, delivers the same enumerants, values
\* and payload slices in the same order as the pass before did, and does not
\* reach the end of the buffer with fewer fields.
DecoderResetRepeats ==
    [][/\ lastop'.name = "cte_decoder_reset" =>
             /\ aborted' = ""
             /\ dec' = [dec EXCEPT !.position = 1]
       /\ \A k \in 1..Len(passes') :
             /\ SameSoFar(passes'[k], Delivered')
             /\ (aborted' = "" /\ dec'.position = dec'.size) =>
                    Len(passes'[k]) <= Len(Delivered')
      ]_vars

\* A second pass of typed reads over two encoded fields, the second a vector
\* of 150 bytes, has delivered what the complete first pass did and peeks EOF.
DecoderResetRepeatsWitness ==
    /\ Len(passes) = 1
    /\ Len(passes[1]) = 2
    /\ passes[1][2].type = CTE_PEEK_TYPE_VECTOR_EXTENDED
    /\ passes[1][2].size = 150
    /\ decoded = passes[1]
    /\ lastop.name = "cte_decoder_peek_type"
    /\ ret.type = CTE_PEEK_EOF

(***************************************************************************)
(* The streaming driver's handler calls.                                   *)
(***************************************************************************)
\* The payload length the handler is told for the field of a call: the items
\* of a vector, the bytes of vector data, the native size of a scalar.
HandlerLength(call) ==
    CASE call.name = "cte_encoder_write_ixdata_vector_index" -> 1
      [] call.name = "cte_encoder_write_ixdata_boolean" -> 1
      [] call.name = "cte_encoder_write_ixdata_fixed" -> FixedSizeof(call.type_code)
      [] call.name \in {"cte_encoder_write_ixdata_uleb128",
                        "cte_encoder_write_ixdata_sleb128"} -> 8
      [] call.name = "cte_encoder_add_public_key_vector" ->
            call.count * PkItemSize(call.size_code)
      [] call.name = "cte_encoder_add_signature_vector" ->
            call.count * SigItemSize(call.size_code)
      [] call.name \in VectorDataWrites -> call.length

\* Scenario 4's transaction: a public key vector (N = 2, S = 0), then index 1.
IsKeysThenIndex ==
    /\ Len(fields) = 2
    /\ fields[1].name = "cte_encoder_add_public_key_vector"
    /\ fields[1].count = 2
    /\ fields[1].size_code = 0
    /\ fields[2].name = "cte_encoder_write_ixdata_vector_index"
    /\ fields[2].index = 1

\* Over the bytes of an encoder the driver returns 0 after one handler call
\* per field, in the order written, each with the field's enumerant and
\* payload length, and with the value or payload written.
HandlerCallsOfEncoded ==
    (DecodingEncoded /\ lastop.name = "cte_decoder_run") =>
        /\ aborted = ""
        /\ ret.code = 0
        /\ decoded = <<>>
        /\ Len(handler_calls) = Len(fields)
        /\ \A i \in 1..Len(fields) :
              /\ handler_calls[i].type = ExpectedType(fields[i])
              /\ handler_calls[i].size = HandlerLength(fields[i])
              /\ SameField(fields[i], handler_calls[i], dec.data)
        /\ IsKeysThenIndex =>
              /\ handler_calls[1] =
                    [type |-> CTE_PEEK_TYPE_PK_VECTOR_SIZE_0, ptr |-> 2, size |-> 64]
              /\ handler_calls[2] =
                    [type |-> CTE_PEEK_TYPE_IXDATA_VECTOR_INDEX, index |-> 1,
                     size |-> 1]

\* The driver over scenario 4's transaction has made its two calls.
HandlerCallsOfEncodedWitness ==
    /\ DecodingEncoded
    /\ lastop.name = "cte_decoder_run"
    /\ IsKeysThenIndex
    /\ Len(handler_calls) = 2
    /\ handler_calls[1].size = 64
    /\ handler_calls[2].index = 1
    /\ ret.code = 0

\* C21: cte_decoder_run over a well-formed buffer calls the handler exactly
\* once per field, in stream order, with the field's peek enumerant and
\* payload length (count times item size for the two vectors, the length for
\* vector data, the native size for a scalar), then returns 0; over a public
\* key vector (N = 2, S = 0) followed by index 1 it makes the two calls
\* (PK_VECTOR_0, 64 bytes), (IXDATA_INDEX, 1 byte).
HandlerCalls ==
    /\ HandlerCallsOfEncoded
    /\ \A t \in VarintZeroTransactions :
          (HoldsBytes(dec, t) /\ lastop.name = "cte_decoder_run") =>
              /\ aborted = ""
              /\ ret.code = 0
              /\ Len(handler_calls) = Len(t) - 1
              /\ handler_calls[Len(t) - 1].type = CTE_PEEK_TYPE_IXDATA_VARINT_ZERO

(***************************************************************************)
(* The encoder's bounds.                                                   *)
(***************************************************************************)
\* The messages of the two capacity checks (encoder.c:18, 481, 504).
CapacityErrors == {"Write past end of buffer capacity", "Capacity error"}

\* A step that is a call of one of the writers.
IsWriteStep == lastop'.name \in WriteNames /\ enc # NoHandle

\* The bytes below position, which get_data and get_size hand out.
Committed(handle) == [i \in 0..(handle.position - 1) |-> handle.buffer[i]]

\* C23: in every reachable encoder state 1 <= position <= capacity and
\* buffer[0] = 0xF1; no write stores a byte at an index >= capacity; and a
\* write whose field would end past capacity aborts with the capacity error
\* and commits nothing: position and the bytes below it stay as they were.
EncoderBounds ==
    [][/\ enc' # NoHandle =>
            /\ 1 <= enc'.position
            /\ enc'.position <= enc'.capacity
            /\ enc'.buffer[0] = CTE_VERSION_BYTE
            /\ \A i \in DOMAIN enc'.buffer : i < enc'.capacity
       /\ (/\ IsWriteStep
           /\ ValidCall(lastop')
           /\ enc.position + PredictedSize(lastop') > enc.capacity) =>
              /\ aborted' \in CapacityErrors
              /\ enc'.position = enc.position
              /\ Committed(enc') = Committed(enc)
              /\ fields' = fields
      ]_vars

\* A five-byte int32 field was refused by an encoder of capacity 6 that held
\* two bytes.
EncoderBoundsWitness ==
    /\ enc # NoHandle
    /\ aborted = "Write past end of buffer capacity"
    /\ lastop.name = "cte_encoder_write_ixdata_fixed"
    /\ FixedSizeof(lastop.type_code) = 4
    /\ enc.capacity = 6
    /\ enc.position = 2

\* C24: a failed encoder write commits nothing: when a write aborts (invalid
\* index, invalid count, length over 1197, capacity exceeded, a LEB128 write
\* that runs out of room part-way included), position and the bytes
\* buffer[0 .. position) are exactly as before the call.
FailedWriteCommitsNothing ==
    [][(IsWriteStep /\ aborted' # "") =>
          /\ enc'.position = enc.position
          /\ enc'.capacity = enc.capacity
          /\ Committed(enc') = Committed(enc)
          /\ cte_encoder_get_size(enc') = cte_encoder_get_size(enc)
      ]_vars

\* ULEB128(123456) on a fresh encoder of capacity 5 ran out of room after the
\* header and two groups were stored above position, which is still 1.
FailedWriteCommitsNothingWitness ==
    /\ enc # NoHandle
    /\ aborted = "Write past end of buffer capacity"
    /\ lastop.name = "cte_encoder_write_ixdata_uleb128"
    /\ lastop.value = u64(123456)
    /\ enc.capacity = 5
    /\ enc.position = 1
    /\ DOMAIN enc.buffer = 0..3
    /\ enc.buffer[1] = 133

(***************************************************************************)
(* The room a LEB128 write asks for.                                       *)
(***************************************************************************)
LebWrites == {"cte_encoder_write_ixdata_uleb128", "cte_encoder_write_ixdata_sleb128"}

\* A step that is a call of one of the two LEB128 writers.
IsLebWriteStep == IsWriteStep /\ lastop'.name \in LebWrites

\* C28: a ULEB128 or SLEB128 write succeeds whenever position + 1 + the
\* encoding's length <= capacity, at every position: a byte is refused only
\* if its own index is >= capacity, so ULEB128(123456) fits a fresh encoder of
\* capacity 5.
LebWriteFits ==
    [][(IsLebWriteStep /\ enc.position + PredictedSize(lastop') <= enc.capacity) =>
          /\ aborted' = ""
          /\ enc'.position = enc.position + PredictedSize(lastop')
      ]_vars

\* What the code does: the check in the loop adds position to an offset that
\* already holds it, so the write succeeds exactly when
\* 2 * position + 1 + the encoding's length <= capacity.
LebWriteCountsPositionTwice ==
    [][IsLebWriteStep =>
          /\ aborted' = "" <=>
                2 * enc.position + PredictedSize(lastop') <= enc.capacity
          /\ aborted' = "" =>
                enc'.position = enc.position + PredictedSize(lastop')
          /\ aborted' # "" => aborted' = "Write past end of buffer capacity"
      ]_vars

(***************************************************************************)
(* The LEB128 decoders against the value the bytes denote.                 *)
(***************************************************************************)
\* Bit b of the number that n LEB128 bytes starting at data[start] spell:
\* bit b % 7 of the group in byte b \div 7, for 0 <= b < 7 * n.
GroupBit(data, start, b) == (data[start + (b \div 7)] \div (2 ^ (b % 7))) % 2

\* value is the unsigned number the n bytes spell: every group bit is in
\* value, none lies above bit 63, and value has no other bit.
IsUleb128Value(data, start, n, value) ==
    /\ \A b \in 0..(7 * n - 1) :
          IF b <= 63 THEN value[b] = GroupBit(data, start, b)
                     ELSE GroupBit(data, start, b) = 0
    /\ \A b \in Bits64 : b >= 7 * n => value[b] = 0

\* value is the signed number the n bytes spell: the 7n-bit two's complement
\* number of the groups, whose sign is bit 6 of the last byte; it fits 64
\* bits only if every group bit from bit 63 upwards repeats the sign.
IsSleb128Value(data, start, n, value) ==
    LET sign == GroupBit(data, start, 7 * n - 1) IN
    /\ \A b \in 0..(7 * n - 1) :
          /\ b <= 63 => value[b] = GroupBit(data, start, b)
          /\ b >= 63 => GroupBit(data, start, b) = sign
    /\ \A b \in Bits64 : b >= 7 * n => value[b] = sign

\* A step that is the typed read of a field of the given enumerant.
IsReadOf(type) == lastop'.name = "read" /\ lastop'.type = type

\* The LEB128 bytes a read step consumed after the header.
LebConsumed == dec'.position - (dec.position + 1)

\* The ULEB128 half: at most 10 bytes, and the value the bytes denote.
Uleb128DecodedExactly ==
    [][IsReadOf(CTE_PEEK_TYPE_IXDATA_ULEB128) =>
          /\ LebConsumed <= 10
          /\ aborted' = "" =>
                IsUleb128Value(dec.data, dec.position + 1, LebConsumed, ret'.value)
      ]_vars

\* C26: both LEB128 decoders consume at most 10 bytes and reject every
\* encoding that carries more than 64 bits of value: no accepted sequence has
\* payload bits beyond bit 63 dropped, so the value returned is the
\* mathematical value of the encoding.
LebDecodedExactly ==
    [][/\ IsReadOf(CTE_PEEK_TYPE_IXDATA_ULEB128) =>
            /\ LebConsumed <= 10
            /\ aborted' = "" =>
                  IsUleb128Value(dec.data, dec.position + 1, LebConsumed, ret'.value)
       /\ IsReadOf(CTE_PEEK_TYPE_IXDATA_SLEB128) =>
            /\ LebConsumed <= 10
            /\ aborted' = "" =>
                  IsSleb128Value(dec.data, dec.position + 1, LebConsumed, ret'.value)
      ]_vars

\* What the code does for SLEB128: up to nine bytes the value is exact; of a
\* terminal tenth byte bit 0 becomes bit 63 of the value and bits 1 to 6 are
\* dropped, whatever they are.
Sleb128TenthByteUnchecked ==
    [][IsReadOf(CTE_PEEK_TYPE_IXDATA_SLEB128) =>
          /\ LebConsumed <= 10
          /\ (aborted' = "" /\ LebConsumed < 10) =>
                IsSleb128Value(dec.data, dec.position + 1, LebConsumed, ret'.value)
          /\ (aborted' = "" /\ LebConsumed = 10) =>
                \A b \in Bits64 :
                    ret'.value[b] = GroupBit(dec.data, dec.position + 1, b)
      ]_vars

(***************************************************************************)
(* The two last-vector fields.                                             *)
(***************************************************************************)
\* The types whose reader is one of the IxData readers.
IsIxDataType(type) ==
    \/ IsFixedType(type)
    \/ type \in {CTE_PEEK_TYPE_IXDATA_VECTOR_INDEX, CTE_PEEK_TYPE_IXDATA_ULEB128,
                 CTE_PEEK_TYPE_IXDATA_SLEB128, CTE_PEEK_TYPE_IXDATA_CONST_FALSE,
                 CTE_PEEK_TYPE_IXDATA_CONST_TRUE}

\* The call that wrote the field a successful read step has just delivered.
CallJustRead == fields[Len(decoded')]

\* C27: a successful public-key or signature vector read sets
\* last_vector_count to the header's N, and a successful vector-data read sets
\* last_vector_payload_length to the payload length (150 after the 150-byte
\* extended field); both are 0 after init; peek_type and the IxData reads
\* leave both unchanged.
LastVectorFields ==
    [][/\ lastop'.name = "load" /\ dec' # NoHandle =>
             /\ cte_decoder_get_last_vector_count(dec') = 0
             /\ cte_decoder_get_last_vector_data_payload_length(dec') = 0
       /\ (lastop'.name = "read" /\ aborted' = ""
           /\ (IsPkVectorType(lastop'.type) \/ IsSigVectorType(lastop'.type))) =>
             /\ cte_decoder_get_last_vector_count(dec')
                    = (dec.data[dec.position] \div 4) % 16
             /\ DecodingEncoded =>
                    cte_decoder_get_last_vector_count(dec') = CallJustRead.count
       /\ (lastop'.name = "read" /\ aborted' = "" /\ IsVectorDataType(lastop'.type)) =>
             /\ cte_decoder_get_last_vector_data_payload_length(dec')
                    = dec'.position - ret'.ptr
             /\ cte_decoder_get_last_vector_data_payload_length(dec')
                    = IF lastop'.type = CTE_PEEK_TYPE_VECTOR_EXTENDED
                      THEN ExtendedLength(dec)
                      ELSE dec.data[dec.position] % 32
             /\ DecodingEncoded =>
                    cte_decoder_get_last_vector_data_payload_length(dec')
                        = CallJustRead.length
       /\ (\/ lastop'.name = "cte_decoder_peek_type"
           \/ lastop'.name = "read" /\ IsIxDataType(lastop'.type)) =>
             /\ dec'.last_vector_count = dec.last_vector_count
             /\ dec'.last_vector_data_len = dec.last_vector_data_len
      ]_vars

\* The 150-byte extended field, written after a two-key vector, has been
\* read: the length is 150 and the count is still 2.
LastVectorFieldsWitness ==
    /\ DecodingEncoded
    /\ aborted = ""
    /\ lastop.name = "read"
    /\ lastop.type = CTE_PEEK_TYPE_VECTOR_EXTENDED
    /\ Len(decoded) = 2
    /\ fields[2].length = 150
    /\ cte_decoder_get_last_vector_data_payload_length(dec) = 150
    /\ cte_decoder_get_last_vector_count(dec) = 2

(***************************************************************************)
(* Typed reads on a header of another reader.                              *)
(***************************************************************************)
\* header, by its tag, IxData subtype and detail code, is not a header of the
\* reader's field.
HeaderMismatch(header, reader) ==
    LET tag == header \div 64
        ss == header % 4
        dddd == (header \div 4) % 16
    IN  CASE reader = CTE_PEEK_TYPE_PK_VECTOR_SIZE_0 -> tag # 0
          [] reader = CTE_PEEK_TYPE_SIG_VECTOR_SIZE_0 -> tag # 1
          [] reader = CTE_PEEK_TYPE_VECTOR_SHORT -> tag # 3
          [] reader = CTE_PEEK_TYPE_IXDATA_VECTOR_INDEX -> tag # 2 \/ ss # 0
          [] reader = CTE_PEEK_TYPE_IXDATA_ULEB128 -> tag # 2 \/ ss # 1 \/ dddd # 1
          [] reader = CTE_PEEK_TYPE_IXDATA_SLEB128 -> tag # 2 \/ ss # 1 \/ dddd # 2
          [] reader = CTE_PEEK_TYPE_IXDATA_CONST_FALSE -> tag # 2 \/ ss # 3
          [] IsFixedType(reader) ->
                tag # 2 \/ ss # 2 \/ dddd # reader - CTE_PEEK_TYPE_IXDATA_INT8

\* C22: a typed read called when the header at the current position does not
\* match the reader (another tag, another IxData subtype, or another detail
\* code: the ULEB128 read on an SLEB128 field, the public-key read on a
\* signature vector) aborts and returns no value.
MismatchedReadAborts ==
    [][(/\ lastop'.name = "typed_read"
        /\ dec.position < dec.size
        /\ HeaderMismatch(dec.data[dec.position], lastop'.reader)) =>
          /\ aborted' # ""
          /\ ret' = [void |-> TRUE]
          /\ decoded' = decoded
          /\ dec'.last_vector_count = dec.last_vector_count
          /\ dec'.last_vector_data_len = dec.last_vector_data_len
      ]_vars

\* The ULEB128 read was called on the SLEB128 field [0x89, 0x00] and aborted.
MismatchedReadAbortsWitness ==
    /\ HoldsBytes(dec, <<CTE_VERSION_BYTE, 137, 0>>)
    /\ lastop.name = "typed_read"
    /\ lastop.reader = CTE_PEEK_TYPE_IXDATA_ULEB128
    /\ aborted = "Expected Varint encoding scheme 1 (ULEB128)"
    /\ decoded = <<>>

(***************************************************************************)
(* The decoder's cursor.                                                   *)
(***************************************************************************)
\* The number of LEB128 bytes from data[start] up to the first byte without
\* the continuation bit.
LebBytes(data, start) ==
    CHOOSE n \in 1..10 :
        /\ data[start + n - 1] < 128
        /\ \A m \in 1..(n - 1) : data[start + m - 1] >= 128

\* The full length, header included, of the field whose header is data[pos],
\* from the wire format.
WireLength(data, pos) ==
    LET header == data[pos]
        tag == header \div 64
        ss == header % 4
        dddd == (header \div 4) % 16
    IN  CASE tag = 0 -> 1 + dddd * PkItemSize(ss)
          [] tag = 1 -> 1 + dddd * SigItemSize(ss)
          [] tag = 2 /\ ss \in {0, 3} -> 1
          [] tag = 2 /\ ss = 1 -> 1 + LebBytes(data, pos + 1)
          [] tag = 2 /\ ss = 2 -> 1 + FixedSizeof(dddd)
          [] tag = 3 /\ header < 224 -> 1 + (header % 32)
          [] tag = 3 /\ header >= 224 ->
                2 + ((header \div 4) % 8) * 256 + data[pos + 1]

\* A step that is a peek or a typed read.
IsCursorStep == lastop'.name \in {"cte_decoder_peek_type", "read", "typed_read"}

\* C25: after the first successful peek_type, across any sequence of peeks
\* and typed reads without reset, position never decreases and
\* 1 <= position <= size; every successful read advances position by exactly
\* the field's full length, and every payload slice returned lies inside the
\* buffer (payload start + payload length <= size).
CursorSafety ==
    [][/\ (IsCursorStep /\ dec.position = 0 /\ aborted' = ""
           /\ lastop'.name = "cte_decoder_peek_type") =>
             dec'.position = 1 /\ dec'.position <= dec'.size
       /\ (IsCursorStep /\ dec.position >= 1) =>
             /\ dec'.position >= dec.position
             /\ dec'.position <= dec'.size
             /\ dec'.size = dec.size
             /\ (lastop'.name # "cte_decoder_peek_type" /\ aborted' = "") =>
                   /\ dec'.position
                          = dec.position + WireLength(dec.data, dec.position)
                   /\ "ptr" \in DOMAIN ret' =>
                         /\ ret'.ptr > dec.position
                         /\ ret'.ptr + ret'.size = dec'.position
                         /\ ret'.ptr + ret'.size <= dec'.size
      ]_vars

\* The 1197-byte vector that ends the encoded transaction has been read: its
\* slice ends where the buffer ends.
CursorSafetyWitness ==
    /\ DecodingEncoded
    /\ aborted = ""
    /\ lastop.name = "read"
    /\ lastop.type = CTE_PEEK_TYPE_VECTOR_EXTENDED
    /\ ret.size = 1197
    /\ ret.ptr + ret.size = dec.size
    /\ dec.position = dec.size

(***************************************************************************)
(* Termination of the streaming driver.                                    *)
(***************************************************************************)
\* The driver is inside its loop.
InRunLoop == lastop.name = "run_loop"

\* The driver has returned or aborted.
RunEnded == lastop.name = "cte_decoder_run" /\ (aborted # "" \/ ret.code = 0)

\* C29: cte_decoder_run terminates on every loaded buffer of size >= 1, well
\* formed or not: each loop iteration aborts, ends the loop at the end of the
\* buffer, or consumes at least one byte before its handler call (a
\* zero-length short vector-data field still consumes its header); the call
\* ends by returning 0 or by aborting, after at most size - 1 handler calls,
\* and never loops at a fixed position.
RunTerminates ==
    /\ [][InRunLoop =>
            \/ aborted' # "" /\ handler_calls' = handler_calls
            \/ /\ lastop'.name = "cte_decoder_run"
               /\ ret'.code = 0
               /\ dec' = dec
               /\ dec.position = dec.size
               /\ handler_calls' = handler_calls
            \/ /\ InRunLoop'
               /\ dec'.position > dec.position
               /\ dec'.position <= dec'.size
               /\ Len(handler_calls') = Len(handler_calls) + 1
         ]_vars
    /\ [](dec # NoHandle => Len(handler_calls) <= dec.size - 1)
    /\ (InRunLoop ~> RunEnded)

\* The driver returned 0 over [0xF1, 0xC0], a zero-length short vector-data
\* field, after one handler call of length 0 that consumed the header.
RunTerminatesWitness ==
    /\ HoldsBytes(dec, <<CTE_VERSION_BYTE, 192>>)
    /\ RunEnded
    /\ ret.code = 0
    /\ Len(handler_calls) = 1
    /\ handler_calls[1].size = 0
    /\ dec.position = 2

\* The loop run step by step ends as the call run at once does.
RunStepwiseAgrees ==
    RunEnded =>
        LET r == cte_decoder_run([dec EXCEPT !.position = IF passes = <<>> THEN 0 ELSE 1])
        IN  /\ handler_calls = r.calls
            /\ aborted = r.abort
            /\ ret.code = r.ret
            /\ dec.position = r.decoder.position

(***************************************************************************)
(* The version byte before any field.                                      *)
(***************************************************************************)
\* The step moves a loaded decoder off position 0.
LeavesByteZero ==
    /\ dec # NoHandle
    /\ dec' # NoHandle
    /\ dec.position = 0
    /\ dec'.position # 0

\* The step hands the caller a field: a field enumerant from peek_type, a
\* value from a typed read, or a handler call of the driver.
YieldsField ==
    \/ /\ lastop'.name = "cte_decoder_peek_type"
       /\ aborted' = ""
       /\ ret'.type \notin {CTE_PEEK_EOF, -1}
    \/ lastop'.name \in {"read", "typed_read"} /\ aborted' = ""
    \/ lastop'.name = "cte_decoder_run" /\ handler_calls' # <<>>

\* C30: no field is classified or consumed from a buffer whose version byte
\* was not validated: whatever the sequence of init, load, reset, peek_type,
\* typed reads and run, position leaves byte 0 only through the version check
\* of peek_type (so with data[0] = 0xF1), a field is handed out only from a
\* buffer with data[0] = 0xF1, and byte 0 is never parsed as a field header;
\* a reset or a typed read before the first peek does not go round the check.
VersionAlwaysChecked ==
    [][/\ LeavesByteZero =>
             /\ lastop'.name \in {"cte_decoder_peek_type", "cte_decoder_run"}
             /\ dec.data[0] = CTE_VERSION_BYTE
       /\ YieldsField =>
             /\ dec'.data[0] = CTE_VERSION_BYTE
             /\ lastop'.name \in {"read", "typed_read"} => dec.position >= 1
      ]_vars

\* What the code guarantees: the check is made by the peek at position 0 and
\* by nothing else, so it holds for the callers that neither reset nor read
\* before their first peek.
VersionCheckedUnlessBypassed ==
    [][/\ (LeavesByteZero
           /\ lastop'.name \notin {"cte_decoder_reset", "typed_read"}) =>
             /\ lastop'.name \in {"cte_decoder_peek_type", "cte_decoder_run"}
             /\ dec.data[0] = CTE_VERSION_BYTE
       /\ (LeavesByteZero /\ lastop'.name = "cte_decoder_reset") =>
             dec'.position = 1 /\ aborted' = ""
       /\ (LeavesByteZero /\ lastop'.name = "typed_read") =>
             /\ aborted' = ""
             /\ dec'.position = WireLength(dec.data, 0)
      ]_vars

\* The two ways round the check, as they happen: after a reset the peek
\* classifies byte 1 of a buffer that begins with 0xF0; and the vector-data
\* read on a fresh decoder takes the version byte 0xF1 and the byte after it
\* for an extended header of length 1030.
VersionBypassed ==
    \/ /\ HoldsBytes(dec, <<240, 148>>)
       /\ lastop.name = "cte_decoder_peek_type"
       /\ aborted = ""
       /\ ret.type = CTE_PEEK_TYPE_IXDATA_VECTOR_INDEX
    \/ /\ dec # NoHandle
       /\ dec.size = 1032
       /\ lastop.name = "typed_read"
       /\ aborted = ""
       /\ ret = [type |-> CTE_PEEK_TYPE_VECTOR_EXTENDED, ptr |-> 2, size |-> 1030]
       /\ dec.position = dec.size

====
